---- MODULE Spec2Model ----
(***************************************************************************)
(* A model of the travel planner's /plan request handler (src/app.py) and  *)
(* of the helpers it is built on: strip_code_fences,                       *)
(* extract_text_from_api_response, extract_json_from_text,                 *)
(* normalize_visit_sequence, safe_load_json_like, call_gemini and the map  *)
(* link builders.                                                          *)
(*                                                                         *)
(* Specifications.  Spec runs plan() on one request, a step of the         *)
(* handler's body at a time, until it redirects, renders or raises.        *)
(* SpecFence, SpecJson and SpecNorm apply one helper to one input.         *)
(*                                                                         *)
(* Text.  A Python str is a sequence of lexemes, each a TLA+ string: the   *)
(* code fence, the json tag, the two markers, JSON punctuation, the quote  *)
(* and the backslash-escaped quote, white space, number lexemes and        *)
(* words.  The regular expressions and scans of the source work on these   *)
(* lexemes.                                                                *)
(*                                                                         *)
(* Values.  A Python value is a record tagged by its type, with a field    *)
(* name of its own per type, so that two values of different types are     *)
(* unequal and never compared field by field.                              *)
(***************************************************************************)
EXTENDS Integers, Sequences, FiniteSets, TLC

VARIABLES
    fn,                 \* pure-function harness: the function applied, "none" before
    arg,                \* its input
    aux,                \* what the input was built from (the embedded JSON value, the list)
    res,                \* its result; in Spec, the exception that left the handler
    req,                \* the request: form fields, configuration, what the upstream does
    pc,                 \* position of the /plan handler
    calls,              \* number of HTTP requests sent to the upstream API in this request
    flashes,            \* flash messages recorded for the user
    gemini_raw,         \* plan(): gemini_raw
    parsed,             \* plan(): parsed
    itinerary,          \* plan(): itinerary
    visit_sequence,     \* plan(): visit_sequence
    popular_dinners,    \* plan(): popular_dinners
    popular_stays,      \* plan(): popular_stays
    travel_instructions,\* plan(): travel_instructions, then final_travel_instructions
    days_n,             \* plan(): days_n
    layout,             \* plan(): n_nodes, max_cols, cols, rows, col_step, svg_height, and
                        \*         cells, the <<col, row>> of each node
    node_positions,     \* plan(): node_positions, the visit_nodes handed to the template
    location_to_coords, \* plan(): location_to_coords
    links,              \* plan(): coords_list, maps_link, maps_search_link, maps_iframe_src,
                        \*         maps_directions_link
    outcome             \* "pending", "redirect", "rendered" or "raised"

fnVars == <<fn, arg, aux, res>>
planVars == <<req, pc, calls, flashes, gemini_raw, parsed, itinerary, visit_sequence,
              popular_dinners, popular_stays, travel_instructions, days_n, layout,
              node_positions, location_to_coords, links, outcome>>
vars == <<fn, arg, aux, res, req, pc, calls, flashes, gemini_raw, parsed, itinerary,
          visit_sequence, popular_dinners, popular_stays, travel_instructions, days_n,
          layout, node_positions, location_to_coords, links, outcome>>

----------------------------------------------------------------------------
(* Bounds of the model *)

MaxFenceLen == 5        \* longest text given to strip_code_fences
MaxPrefixLen == 2       \* longest prose before the start marker
MaxSuffixLen == 1       \* longest prose after the end marker
MaxNormLen == 2         \* longest visit list given to normalize_visit_sequence
MaxVisits == 3          \* longest visit_sequence of an answer built from the pool
MaxNodes == 7           \* most nodes laid out on the grid
MaxFields == 3          \* most field paths a response body fills
MaxServed == 3          \* requests served together by one process
MaxShapes == 3          \* longest sequence of items of every shape
MaxPieces == 3          \* most pieces a text given to extract_json_from_text is made of
MaxRows == 35           \* most rows of a grid of one column

----------------------------------------------------------------------------
(* Lexemes *)

FENCE == "<fence>"      \* three backticks
TAG == "json"
JSON_START == "===JSON_START==="
JSON_END == "===JSON_END==="
QUOTE == "\""
ESC_QUOTE == "\\\""
SP == " "
NL == "\n"

IsSpace(c) == c \in {SP, NL}

----------------------------------------------------------------------------
(* Python values *)

None == [t |-> "null"]
PyBool(b) == [t |-> "bool", b |-> b]
PyInt(n) == [t |-> "int", i |-> n]
PyFloat(lex) == [t |-> "float", f |-> lex]
PyStr(s) == [t |-> "str", s |-> s]
PyList(l) == [t |-> "list", l |-> l]
PyDict(d) == [t |-> "dict", d |-> d]

IsStr(v) == v.t = "str"
IsList(v) == v.t = "list"
IsDict(v) == v.t = "dict"

\* Python truth value: None, False, 0, "", [] and {} are false
Truthy(v) ==
    CASE v.t = "null" -> FALSE
      [] v.t = "bool" -> v.b
      [] v.t = "int" -> v.i # 0
      [] v.t = "float" -> TRUE
      [] v.t = "str" -> Len(v.s) > 0
      [] v.t = "list" -> Len(v.l) > 0
      [] v.t = "dict" -> Len(v.d) > 0

\* Python: a or b
Or(a, b) == IF Truthy(a) THEN a ELSE b

RECURSIVE LStrip(_)
LStrip(s) == IF Len(s) > 0 /\ IsSpace(s[1]) THEN LStrip(Tail(s)) ELSE s

RECURSIVE RStrip(_)
RStrip(s) == IF Len(s) > 0 /\ IsSpace(s[Len(s)]) THEN RStrip(SubSeq(s, 1, Len(s) - 1)) ELSE s

\* str.strip()
Strip(s) == RStrip(LStrip(s))

\* every text over the alphabet a of at most n lexemes
TextsUpTo(a, n) == UNION {[1..k -> a] : k \in 0..n}

----------------------------------------------------------------------------
\* strip_code_fences searches the text for the pattern
\*     ^ fence (?:json)? \s* ( .* ) \s* fence $      under re.S | re.I

\* Position of the closing fence of the match, 0 when the pattern does not match.
\* Without re.M, $ matches at the end of the text and also just before a newline
\* that ends the text.
FenceClose(s) ==
    IF Len(s) >= 2 /\ s[1] = FENCE
    THEN IF s[Len(s)] = FENCE THEN Len(s)
         ELSE IF Len(s) >= 3 /\ s[Len(s)] = NL /\ s[Len(s) - 1] = FENCE THEN Len(s) - 1
         ELSE 0
    ELSE 0

\* A variant that returns m.group(1) as matched, without the final .strip()
strip_code_fences_unstripped(text) ==
    IF ~IsStr(text) THEN text
    ELSE LET s == text.s
             c == FenceClose(s)
             a == IF c > 2 /\ s[2] = TAG THEN 3 ELSE 2
         IN IF c = 0 THEN text ELSE PyStr(LStrip(SubSeq(s, a, c - 1)))

strip_code_fences(text) ==
    IF ~IsStr(text) THEN text
    ELSE LET s == text.s
             c == FenceClose(s)
             \* (?:json)? takes the tag when it follows the opening fence
             a == IF c > 2 /\ s[2] = TAG THEN 3 ELSE 2
         IN IF c = 0 THEN text ELSE PyStr(Strip(SubSeq(s, a, c - 1)))

----------------------------------------------------------------------------
(* Dictionaries: a dict is the sequence of its <<key, value>> pairs in       *)
(* insertion order; a key is the text of the key.                           *)

Key(name) == <<name>>

RECURSIVE Lookup(_, _)
\* the value stored under key k in the pair sequence d, None when absent
Lookup(d, k) ==
    IF Len(d) = 0 THEN None
    ELSE IF d[1][1] = k THEN d[1][2] ELSE Lookup(Tail(d), k)

HasKey(d, name) == \E i \in 1..Len(d.d) : d.d[i][1] = Key(name)

\* dict.get(name): None when the key is absent
Get(d, name) == Lookup(d.d, Key(name))

\* dict.get(name, default)
GetDefault(d, name, default) == IF HasKey(d, name) THEN Get(d, name) ELSE default

\* d[k] = v on a pair sequence: an existing key keeps its place
DictSet(d, k, v) ==
    IF \E i \in 1..Len(d) : d[i][1] = k
    THEN [i \in 1..Len(d) |-> IF d[i][1] = k THEN <<k, v>> ELSE d[i]]
    ELSE Append(d, <<k, v>>)

\* a dict literal from a sequence of <<name, value>> pairs
Dict(pairs) == PyDict([i \in 1..Len(pairs) |-> <<Key(pairs[i][1]), pairs[i][2]>>])

----------------------------------------------------------------------------
(* JSON text: json.dumps and json.loads on lexemes *)

\* number lexemes and the integers they denote
IntTable ==
    {<<"-1", -1>>, <<"0", 0>>, <<"1", 1>>, <<"2", 2>>, <<"3", 3>>, <<"4", 4>>, <<"5", 5>>,
     <<"6", 6>>, <<"100", 100>>, <<"250", 250>>, <<"300", 300>>, <<"500", 500>>,
     <<"700", 700>>}
IntLexemes == {p[1] : p \in IntTable}
IntOf(lex) == (CHOOSE p \in IntTable : p[1] = lex)[2]
LexOf(n) == (CHOOSE p \in IntTable : p[2] = n)[1]
FloatLexemes ==
    {"27.4921", "77.6745", "27.5807", "77.7061", "27.4833", "77.6750", "77.675", "4.2", "3.8",
     "4.0"}
\* the float a lexeme denotes, named by its shortest lexeme (what repr writes)
FloatCanon(lex) == IF lex = "77.6750" THEN "77.675" ELSE lex

ESC_NL == "\\n"
ESC2_QUOTE == "\\\\\\\""

\* one lexeme of a string inside a JSON string literal: the quote and the newline
\* are written with a backslash, an escaped quote with its backslash escaped too
EscapeLex(c) ==
    CASE c = QUOTE -> ESC_QUOTE
      [] c = ESC_QUOTE -> ESC2_QUOTE
      [] c = NL -> ESC_NL
      [] OTHER -> c

\* the inverse: what a backslash escape denotes
UnescapeLex(c) ==
    CASE c = ESC_QUOTE -> QUOTE
      [] c = ESC2_QUOTE -> ESC_QUOTE
      [] c = ESC_NL -> NL
      [] OTHER -> c

Escape(s) == [i \in 1..Len(s) |-> EscapeLex(s[i])]
Unescape(s) == [i \in 1..Len(s) |-> UnescapeLex(s[i])]

RECURSIVE Dumps(_), DumpsItems(_), DumpsPairs(_)
\* json.dumps(v): items separated by ", ", a key from its value by ": "
Dumps(v) ==
    CASE v.t = "null" -> <<"null">>
      [] v.t = "bool" -> IF v.b THEN <<"true">> ELSE <<"false">>
      [] v.t = "int" -> <<LexOf(v.i)>>
      [] v.t = "float" -> <<v.f>>
      [] v.t = "str" -> <<QUOTE>> \o Escape(v.s) \o <<QUOTE>>
      [] v.t = "list" -> <<"[">> \o DumpsItems(v.l) \o <<"]">>
      [] v.t = "dict" -> <<"{">> \o DumpsPairs(v.d) \o <<"}">>
DumpsItems(l) ==
    IF Len(l) = 0 THEN <<>>
    ELSE IF Len(l) = 1 THEN Dumps(l[1])
    ELSE Dumps(l[1]) \o <<",", SP>> \o DumpsItems(Tail(l))
DumpsPairs(d) ==
    IF Len(d) = 0 THEN <<>>
    ELSE LET one == <<QUOTE>> \o Escape(d[1][1]) \o <<QUOTE, ":", SP>> \o Dumps(d[1][2])
         IN IF Len(d) = 1 THEN one ELSE one \o <<",", SP>> \o DumpsPairs(Tail(d))

RECURSIVE SkipWs(_, _)
\* the first position from i on that holds no white space (Len(s) + 1 at the end)
SkipWs(s, i) == IF i <= Len(s) /\ IsSpace(s[i]) THEN SkipWs(s, i + 1) ELSE i

\* the lexeme at position i, "" past the end
At(s, i) == IF i >= 1 /\ i <= Len(s) THEN s[i] ELSE ""

ParseFail == [ok |-> FALSE, v |-> None, n |-> 0]
ParseOk(v, n) == [ok |-> TRUE, v |-> v, n |-> n]

\* the least position of a set of positions, 0 for the empty set
LeastOrZero(S) == IF S = {} THEN 0 ELSE CHOOSE p \in S : \A q \in S : p <= q

\* the first position from i on that holds lexeme c, 0 when there is none
FindLex(s, i, c) == LeastOrZero({j \in i..Len(s) : s[j] = c})

\* a string literal opening at position i: up to the next quote; a raw newline
\* inside it is a control character and is refused
ParseString(s, i) ==
    LET j == FindLex(s, i + 1, QUOTE)
    IN IF At(s, i) # QUOTE \/ j = 0 THEN ParseFail
       ELSE LET body == SubSeq(s, i + 1, j - 1)
            IN IF \E k \in 1..Len(body) : body[k] = NL THEN ParseFail
               ELSE ParseOk(PyStr(Unescape(body)), j + 1)

RECURSIVE ParseValue(_, _), ParseElements(_, _, _), ParseMembers(_, _, _)
\* one JSON value from position i on: the value and the position after it
ParseValue(s, i) ==
    LET j == SkipWs(s, i)
        c == At(s, j)
    IN CASE c = "{" -> ParseMembers(s, j + 1, <<>>)
         [] c = "[" -> ParseElements(s, j + 1, <<>>)
         [] c = QUOTE -> ParseString(s, j)
         [] c = "null" -> ParseOk(None, j + 1)
         [] c = "true" -> ParseOk(PyBool(TRUE), j + 1)
         [] c = "false" -> ParseOk(PyBool(FALSE), j + 1)
         [] c \in IntLexemes -> ParseOk(PyInt(IntOf(c)), j + 1)
         [] c \in FloatLexemes -> ParseOk(PyFloat(FloatCanon(c)), j + 1)
         [] OTHER -> ParseFail
\* the elements of an array after its "[" or after a ",", acc those read so far
ParseElements(s, i, acc) ==
    LET j == SkipWs(s, i)
    IN IF Len(acc) = 0 /\ At(s, j) = "]" THEN ParseOk(PyList(<<>>), j + 1)
       ELSE LET r == ParseValue(s, j)
            IN IF ~r.ok THEN ParseFail
               ELSE LET k == SkipWs(s, r.n)
                    IN CASE At(s, k) = "," -> ParseElements(s, k + 1, Append(acc, r.v))
                         [] At(s, k) = "]" -> ParseOk(PyList(Append(acc, r.v)), k + 1)
                         [] OTHER -> ParseFail
\* the members of an object after its "{" or after a ",", acc those read so far
ParseMembers(s, i, acc) ==
    LET j == SkipWs(s, i)
    IN IF Len(acc) = 0 /\ At(s, j) = "}" THEN ParseOk(PyDict(<<>>), j + 1)
       ELSE LET key == ParseString(s, j)
            IN IF ~key.ok THEN ParseFail
               ELSE LET c == SkipWs(s, key.n)
                        r == ParseValue(s, c + 1)
                    IN IF At(s, c) # ":" \/ ~r.ok THEN ParseFail
                       ELSE LET k == SkipWs(s, r.n)
                                d == DictSet(acc, key.v.s, r.v)
                            IN CASE At(s, k) = "," -> ParseMembers(s, k + 1, d)
                                 [] At(s, k) = "}" -> ParseOk(PyDict(d), k + 1)
                                 [] OTHER -> ParseFail

\* json.loads has read the value r: it fails when r failed or text follows it
LoadsEnd(s, r) ==
    IF r.ok /\ SkipWs(s, r.n) > Len(s) THEN [ok |-> TRUE, v |-> r.v]
    ELSE [ok |-> FALSE, v |-> None]

\* json.loads(s): [ok, v]; it fails on text that is no JSON value or that goes on
\* after the value
Loads(s) == LoadsEnd(s, ParseValue(s, 1))

\* candidate.encode("utf-8").decode("unicode_escape"): backslash escapes decoded
UnicodeEscape(s) == Unescape(s)

\* the handler of the first json.loads: the retry on the unescaped candidate
LoadsRetry(first, candidate) == IF first.ok THEN first ELSE Loads(UnicodeEscape(candidate))

\* the two parse attempts made on a candidate: json.loads, then json.loads of the
\* unescaped candidate
LoadsWithRetry(candidate) == LoadsRetry(Loads(candidate), candidate)

----------------------------------------------------------------------------
(* extract_json_from_text *)

\* A variant that ends group 1 at the first closing brace, whatever follows it
LazyObjectEndFirstBrace(s, e) == FindLex(s, e, "}")

\* \{.*?\}\s*===JSON_END===  from an opening brace at q: the first closing brace
\* from position e on that only white space separates from the end marker
LazyObjectEnd(s, e) ==
    LeastOrZero({j \in e..Len(s) : s[j] = "}" /\ At(s, SkipWs(s, j + 1)) = JSON_END})

\* a match of the marker pattern that starts at position p: <<q, e>>, the span of
\* group 1, or <<0, 0>>
MarkerMatchAt(s, p) ==
    LET q == SkipWs(s, p + 1)
        e == LazyObjectEnd(s, q + 1)
    IN IF At(s, p) = JSON_START /\ At(s, q) = "{" /\ e # 0 THEN <<q, e>> ELSE <<0, 0>>

\* the match that starts at the start marker at p, <<0, 0>> when p is 0
MarkerSearchFrom(s, p) == IF p = 0 THEN <<0, 0>> ELSE MarkerMatchAt(s, p)

\* marker_re.search(text): the leftmost match, its group 1 as short as can be
MarkerSearch(s) ==
    MarkerSearchFrom(s, LeastOrZero({p \in 1..Len(s) :
                                        s[p] = JSON_START /\ MarkerMatchAt(s, p)[1] # 0}))

\* the first brace, opening or closing, from position i on, 0 when there is none
NextBrace(s, i) == LeastOrZero({j \in i..Len(s) : s[j] \in {"{", "}"}})

RECURSIVE BalancedEnd(_, _, _), BalancedEndAt(_, _, _)
\* the scan from the first brace: the position where the depth is back to zero,
\* 0 when the text ends first; every brace counts, also inside a string literal.
\* The lexemes between two braces leave the depth alone: the scan goes from
\* brace to brace.
BalancedEnd(s, i, depth) == BalancedEndAt(s, NextBrace(s, i), depth)
BalancedEndAt(s, j, depth) ==
    IF j = 0 THEN 0
    ELSE IF s[j] = "{" THEN BalancedEnd(s, j + 1, depth + 1)
    ELSE IF (IF depth > 0 THEN depth - 1 ELSE depth) = 0 THEN j
    ELSE BalancedEnd(s, j + 1, depth - 1)

\* what a stage returns from its two parse attempts, None when both failed
ParsedOrNone(r) == IF r.ok THEN r.v ELSE None

\* lines 146-156: the block from first to end, parsed
BraceScanSpan(s, first, end) ==
    IF first = 0 \/ end = 0 THEN None
    ELSE ParsedOrNone(LoadsWithRetry(SubSeq(s, first, end)))

\* A variant that ends the block at the last closing brace of the text
BraceScanFromToLast(s, first) ==
    BraceScanSpan(s, first, LeastOrZero({j \in 1..Len(s) : s[j] = "}" /\ \A k \in (j + 1)..Len(s) : s[k] # "}"}))

\* lines 130-145: the scan from the first brace
BraceScanFrom(s, first) ==
    BraceScanSpan(s, first, IF first = 0 THEN 0 ELSE BalancedEnd(s, first, 0))

\* the second stage: the first balanced {...} block, parsed
BraceScan(s) == BraceScanFrom(s, FindLex(s, 1, "{"))

\* lines 118-156: r is what the parse attempts made of the marker candidate
ExtractAfterMarker(s, r) == IF r.ok THEN r.v ELSE BraceScan(s)

\* lines 117-156: m is the span the marker pattern matched
ExtractMatched(s, m) ==
    IF m[1] # 0 THEN ExtractAfterMarker(s, LoadsWithRetry(SubSeq(s, m[1], m[2])))
    ELSE BraceScan(s)

\* lines 116-156, on the text with its fence stripped
ExtractStripped(s) == ExtractMatched(s, MarkerSearch(s))

extract_json_from_text(text) ==
    IF ~IsStr(text) \/ ~Truthy(text) THEN None
    ELSE ExtractStripped(Strip(strip_code_fences(text).s))

----------------------------------------------------------------------------
(* normalize_visit_sequence *)

\* \d+ matches a lexeme of digits
DigitLexemes == {p[1] : p \in {q \in IntTable : q[2] >= 0}}

RECURSIVE OrderSearch(_, _)
\* re.search(r"order\s*[:=]\s*(\d+)", item, re.I) from position i on: group 1,
\* "" when there is no match
OrderSearch(s, i) ==
    IF i > Len(s) THEN ""
    ELSE LET a == SkipWs(s, i + 1)
             b == SkipWs(s, a + 1)
         IN IF s[i] = "order" /\ At(s, a) \in {":", "="} /\ At(s, b) \in DigitLexemes
            THEN At(s, b)
            ELSE OrderSearch(s, i + 1)

RECURSIVE NameRunEnd(_, _)
\* [^,"']+ from position i on: the position after the run
NameRunEnd(s, i) ==
    IF i <= Len(s) /\ s[i] \notin {",", QUOTE, ESC_QUOTE, ESC2_QUOTE}
    THEN NameRunEnd(s, i + 1) ELSE i

RECURSIVE LocationSearch(_, _)
\* re.search(r'location_name\s*[:=]\s*["\']?([^,"\']+)["\']?', item, re.I) from
\* position i on: [ok, v], v being group 1.  When nothing follows the white space
\* after the separator, the pattern gives the last white space to group 1.
LocationSearch(s, i) ==
    IF i > Len(s) THEN [ok |-> FALSE, v |-> <<>>]
    ELSE LET a == SkipWs(s, i + 1)
             b == SkipWs(s, a + 1)
             g == IF At(s, b) = QUOTE THEN b + 1 ELSE b
             e == NameRunEnd(s, g)
         IN IF s[i] = "location_name" /\ At(s, a) \in {":", "="}
            THEN IF e > g THEN [ok |-> TRUE, v |-> SubSeq(s, g, e - 1)]
                 ELSE IF NameRunEnd(s, b) > b THEN [ok |-> TRUE, v |-> SubSeq(s, b, NameRunEnd(s, b) - 1)]
                 ELSE IF b > a + 1 THEN [ok |-> TRUE, v |-> <<s[b - 1]>>]
                 ELSE LocationSearch(s, i + 1)
            ELSE LocationSearch(s, i + 1)

\* A variant that appends the record also when it has no field
RegexRecordAlways(s) ==
    LET m == OrderSearch(s, 1)
        m2 == LocationSearch(s, 1)
        kv1 == IF m # "" THEN <<<<Key("order"), PyInt(IntOf(m))>>>> ELSE <<>>
        kv == IF m2.ok THEN Append(kv1, <<Key("location_name"), PyStr(Strip(m2.v))>>) ELSE kv1
    IN <<PyDict(kv)>>

\* lines 207-215: the partial record recovered from a string item by the two
\* patterns, as a sequence of at most one dict
RegexRecord(s) ==
    LET m == OrderSearch(s, 1)
        m2 == LocationSearch(s, 1)
        kv1 == IF m # "" THEN <<<<Key("order"), PyInt(IntOf(m))>>>> ELSE <<>>
        kv == IF m2.ok THEN Append(kv1, <<Key("location_name"), PyStr(Strip(m2.v))>>) ELSE kv1
    IN IF Len(kv) > 0 THEN <<PyDict(kv)>> ELSE <<>>

\* lines 171-177: raw_seq from what extract_json_from_text found in the string
NormFromFound(found) ==
    IF IsDict(found) /\ HasKey(found, "visit_sequence")
    THEN Or(Get(found, "visit_sequence"), PyList(<<>>))
    ELSE IF IsList(found) THEN found
    ELSE PyList(<<>>)

\* lines 167-171: r is what json.loads made of the string
NormFromLoads(r, raw_text) ==
    IF r.ok THEN r.v ELSE NormFromFound(extract_json_from_text(PyStr(raw_text)))

\* lines 166-177: raw_seq after the branch for a string
NormFromString(raw_text) == NormFromLoads(Loads(raw_text), raw_text)

\* A variant that reads the visit_sequence field only
NormFromMappingNoVisits(raw) == Or(Get(raw, "visit_sequence"), PyList(<<>>))

\* lines 179-180: raw_seq after the branch for a mapping
NormFromMapping(raw) ==
    Or(Or(Get(raw, "visit_sequence"), Get(raw, "visits")), PyList(<<>>))

\* lines 200-215: the records a string item contributes, found being what the
\* two parse attempts made of it
NormFromParsedItem(found, item) ==
    CASE IsDict(found) -> <<found>>
      [] IsList(found) -> SelectSeq(found.l, IsDict)
      [] OTHER -> RegexRecord(item.s)

\* lines 195-199: json.loads(item), else extract_json_from_text(item)
ParseItem(r, item) == IF r.ok THEN r.v ELSE extract_json_from_text(item)

\* lines 185-215: the records one item of the sequence contributes
NormItem(item) ==
    CASE IsDict(item) -> <<item>>
      [] IsList(item) -> SelectSeq(item.l, IsDict)
      [] IsStr(item) -> NormFromParsedItem(ParseItem(Loads(item.s), item), item)
      [] OTHER -> <<>>

RECURSIVE NormItems(_)
NormItems(l) == IF Len(l) = 0 THEN <<>> ELSE NormItem(l[1]) \o NormItems(Tail(l))

\* lines 182-216: the flat list of the records of raw_seq, [] when it is no list
NormFlatten(raw) == IF ~IsList(raw) THEN PyList(<<>>) ELSE PyList(NormItems(raw.l))

\* lines 179-216
NormAfterString(raw) == NormFlatten(IF IsDict(raw) THEN NormFromMapping(raw) ELSE raw)

normalize_visit_sequence(raw_seq) ==
    IF ~Truthy(raw_seq) THEN PyList(<<>>)
    ELSE NormAfterString(IF IsStr(raw_seq) THEN NormFromString(raw_seq.s) ELSE raw_seq)

----------------------------------------------------------------------------
(* The pure-function harness *)

FenceAlphabet == {FENCE, TAG, SP, NL, "x"}
FenceInputs == {PyStr(s) : s \in TextsUpTo(FenceAlphabet, MaxFenceLen)} \cup {None, PyInt(5)}

\* the handler's locals before the handler has set them
PlanLocalsUnset ==
    /\ calls = 0 /\ flashes = <<>>
    /\ gemini_raw = None /\ parsed = None /\ itinerary = None
    /\ visit_sequence = None /\ popular_dinners = None /\ popular_stays = None
    /\ travel_instructions = None /\ days_n = 0
    /\ layout = None /\ node_positions = <<>> /\ location_to_coords = <<>>
    /\ links = None /\ outcome = "pending"

PlanIdle == req = None /\ pc = "idle" /\ PlanLocalsUnset

InitFence ==
    /\ fn = "none" /\ arg \in FenceInputs /\ aux = None /\ res = None
    /\ PlanIdle

ApplyStripCodeFences ==
    /\ fn = "none"
    /\ fn' = "strip_code_fences"
    /\ res' = strip_code_fences(arg)
    /\ UNCHANGED <<arg, aux>>
    /\ UNCHANGED planVars

NextFence == ApplyStripCodeFences

SpecFence == InitFence /\ [][NextFence]_vars

\* the JSON values embedded between the markers
JsonSamples ==
    { None, PyInt(5), PyStr(<<"a">>), PyList(<<>>), PyList(<<PyInt(1), PyInt(2)>>),
      PyList(<<Dict(<<<<"a", PyInt(1)>>>>)>>),
      PyDict(<<>>),
      Dict(<<<<"a", PyInt(1)>>>>),
      Dict(<<<<"a", PyInt(1)>>, <<"b", PyList(<<None, PyBool(TRUE)>>)>>>>),
      Dict(<<<<"a", Dict(<<<<"b", PyInt(2)>>>>)>>>>),
      Dict(<<<<"a", PyStr(<<"}", QUOTE, "{">>)>>>>),
      Dict(<<<<"a", PyStr(<<"}", JSON_END>>)>>>>) }
ProseAlphabet == {"x", "{", "}", JSON_START, JSON_END}

\* prefix + ===JSON_START=== + J + ===JSON_END=== + suffix, the whole put in a
\* json-tagged fence when fenced
MarkedText(prefix, j, suffix, fenced) ==
    LET body == prefix \o <<JSON_START>> \o Dumps(j) \o <<JSON_END>> \o suffix
    IN IF fenced THEN <<FENCE, TAG, NL>> \o body \o <<NL, FENCE>> ELSE body

InitJson ==
    /\ fn = "none"
    /\ \E prefix \in TextsUpTo(ProseAlphabet, MaxPrefixLen),
          suffix \in TextsUpTo(ProseAlphabet, MaxSuffixLen),
          j \in JsonSamples, fenced \in BOOLEAN :
            /\ aux = [j |-> j, prefix |-> prefix, suffix |-> suffix]
            /\ arg = PyStr(MarkedText(prefix, j, suffix, fenced))
    /\ res = None
    /\ PlanIdle

ApplyExtractJson ==
    /\ fn = "none"
    /\ fn' = "extract_json_from_text"
    /\ res' = extract_json_from_text(arg)
    /\ UNCHANGED <<arg, aux>>
    /\ UNCHANGED planVars

NextJson == ApplyExtractJson

SpecJson == InitJson /\ [][NextJson]_vars

\* the visit mappings the lists are made of
NormVisits ==
    { Dict(<<<<"order", PyInt(1)>>, <<"location_name", PyStr(<<"A">>)>>>>),
      Dict(<<<<"location_name", PyStr(<<"B", SP, QUOTE, "b", QUOTE>>)>>>>),
      Dict(<<<<"order", PyInt(2)>>, <<"name", PyStr(<<"C">>)>>, <<"latitude", PyFloat("27.4921")>>>>),
      PyDict(<<>>) }
NormForms == {"list", "json_string", "visit_sequence_mapping", "visits_mapping", "lone_record"}

\* the input that stands for the visit list l in the given form
NormInput(l, form) ==
    CASE form = "list" -> PyList(l)
      [] form = "json_string" -> PyStr(Dumps(PyList(l)))
      [] form = "visit_sequence_mapping" -> Dict(<<<<"visit_sequence", PyList(l)>>>>)
      [] form = "visits_mapping" -> Dict(<<<<"visits", PyList(l)>>>>)
      [] form = "lone_record" -> l[1]

InitNorm ==
    /\ fn = "none"
    /\ \E l \in TextsUpTo(NormVisits, MaxNormLen), form \in NormForms :
          /\ form = "lone_record" => Len(l) = 1
          /\ aux = [l |-> l, form |-> form]
          /\ arg = NormInput(l, form)
    /\ res = None
    /\ PlanIdle

ApplyNormalize ==
    /\ fn = "none"
    /\ fn' = "normalize_visit_sequence"
    /\ res' = normalize_visit_sequence(arg)
    /\ UNCHANGED <<arg, aux>>
    /\ UNCHANGED planVars

NextNorm == ApplyNormalize

SpecNorm == InitNorm /\ [][NextNorm]_vars

----------------------------------------------------------------------------
(* Python operations the handler relies on *)

\* what int(v) raises on, and what it returns otherwise
FloatTable ==
    {<<"27.4921", 27>>, <<"77.6745", 77>>, <<"27.5807", 27>>, <<"77.7061", 77>>,
     <<"27.4833", 27>>, <<"77.675", 77>>, <<"4.2", 4>>, <<"3.8", 3>>, <<"4.0", 4>>}
TruncOf(lex) == (CHOOSE p \in FloatTable : p[1] = lex)[2]

\* int(text): white space around one integer lexeme
IntOfText(s) == IF Len(Strip(s)) = 1 /\ Strip(s)[1] \in IntLexemes
                THEN [ok |-> TRUE, n |-> IntOf(Strip(s)[1])]
                ELSE [ok |-> FALSE, n |-> 0]

\* int(v): [ok, n]; ok is FALSE where int raises TypeError or ValueError
IntConv(v) ==
    CASE v.t = "int" -> [ok |-> TRUE, n |-> v.i]
      [] v.t = "bool" -> [ok |-> TRUE, n |-> IF v.b THEN 1 ELSE 0]
      [] v.t = "float" -> [ok |-> TRUE, n |-> TruncOf(v.f)]
      [] v.t = "str" -> IntOfText(v.s)
      [] OTHER -> [ok |-> FALSE, n |-> 0]

\* float(v) succeeds
FloatOk(v) ==
    CASE v.t \in {"int", "bool", "float"} -> TRUE
      [] v.t = "str" -> Len(Strip(v.s)) = 1 /\ Strip(v.s)[1] \in (IntLexemes \cup FloatLexemes)
      [] OTHER -> FALSE

\* len(v) is defined
HasLen(v) == v.t \in {"str", "list", "dict"}
PyLen(v) ==
    CASE v.t = "str" -> Len(v.s)
      [] v.t = "list" -> Len(v.l)
      [] v.t = "dict" -> Len(v.d)

\* for x in v is defined
Iterable(v) == v.t \in {"str", "list", "dict"}
\* the values for x in v goes through: the items of a list, the characters of a
\* string, the keys of a dict
IterItems(v) ==
    CASE v.t = "list" -> v.l
      [] v.t = "str" -> [i \in 1..Len(v.s) |-> PyStr(<<v.s[i]>>)]
      [] v.t = "dict" -> [i \in 1..Len(v.d) |-> PyStr(v.d[i][1])]

\* hash(v) is defined: v can be a dict key
Hashable(v) == v.t \notin {"list", "dict"}

\* a // b and a % b, which round towards minus infinity, and ceil(a / b); b # 0
PyFloorDiv(a, b) == IF b > 0 THEN a \div b ELSE (0 - a) \div (0 - b)
PyMod(a, b) == a - b * PyFloorDiv(a, b)
PyCeilDiv(a, b) == 0 - PyFloorDiv(0 - a, b)

Min(a, b) == IF a <= b THEN a ELSE b
Max(a, b) == IF a >= b THEN a ELSE b

RECURSIVE FirstTruthy(_, _)
\* d.get(k1) or d.get(k2) or ... or []
FirstTruthy(d, names) ==
    IF Len(names) = 0 THEN PyList(<<>>)
    ELSE IF Truthy(Get(d, names[1])) THEN Get(d, names[1])
    ELSE FirstTruthy(d, Tail(names))

----------------------------------------------------------------------------
(* extract_text_from_api_response *)

RECURSIVE DumpsIndent(_, _), DumpsIndentItems(_, _), DumpsIndentPairs(_, _)
\* json.dumps(v, indent=2) at nesting level n: one item a line, two spaces a
\* level before it
Indent(n) == <<NL>> \o [i \in 1..(2 * n) |-> SP]
DumpsIndent(v, n) ==
    CASE v.t = "list" /\ Len(v.l) > 0 ->
            <<"[">> \o DumpsIndentItems(v.l, n + 1) \o Indent(n) \o <<"]">>
      [] v.t = "dict" /\ Len(v.d) > 0 ->
            <<"{">> \o DumpsIndentPairs(v.d, n + 1) \o Indent(n) \o <<"}">>
      [] OTHER -> Dumps(v)
DumpsIndentItems(l, n) ==
    IF Len(l) = 1 THEN Indent(n) \o DumpsIndent(l[1], n)
    ELSE Indent(n) \o DumpsIndent(l[1], n) \o <<",">> \o DumpsIndentItems(Tail(l), n)
DumpsIndentPairs(d, n) ==
    IF Len(d) = 1
    THEN Indent(n) \o <<QUOTE>> \o Escape(d[1][1]) \o <<QUOTE, ":", SP>> \o DumpsIndent(d[1][2], n)
    ELSE Indent(n) \o <<QUOTE>> \o Escape(d[1][1]) \o <<QUOTE, ":", SP>> \o DumpsIndent(d[1][2], n)
            \o <<",">> \o DumpsIndentPairs(Tail(d), n)

\* the field paths tried, in order: a step is a key or an index
K(name) == [k |-> name]
Ix(n) == [i |-> n]
checks ==
    << <<K("candidates"), Ix(0), K("content"), K("parts"), Ix(0), K("text")>>,
       <<K("candidates"), Ix(0), K("content"), Ix(0), K("text")>>,
       <<K("candidates"), Ix(0), K("text")>>,
       <<K("outputs"), Ix(0), K("content"), Ix(0), K("text")>>,
       <<K("outputs"), Ix(0), K("text")>>,
       <<K("response"), K("text")>>,
       <<K("text")>> >>

RECURSIVE WalkPath(_, _)
\* lines 85-92: cur after the steps of path; ok is FALSE when a key is missing
\* (or holds None) or an index raises
WalkPath(cur, path) ==
    IF Len(path) = 0 THEN [ok |-> TRUE, v |-> cur]
    ELSE IF "i" \in DOMAIN path[1]
    THEN CASE cur.t = "list" /\ Len(cur.l) > path[1].i ->
                    WalkPath(cur.l[path[1].i + 1], Tail(path))
           [] cur.t = "str" /\ Len(cur.s) > path[1].i ->
                    WalkPath(PyStr(<<cur.s[path[1].i + 1]>>), Tail(path))
           [] OTHER -> [ok |-> FALSE, v |-> None]
    ELSE IF IsDict(cur) /\ Get(cur, path[1].k).t # "null"
         THEN WalkPath(Get(cur, path[1].k), Tail(path))
         ELSE [ok |-> FALSE, v |-> None]

\* A variant that takes a string of white space for a text
PathHitUnstripped(w) == w.ok /\ IsStr(w.v) /\ Len(w.v.s) > 0

\* line 93: the path resolved to a string with more than white space in it
PathHit(w) == w.ok /\ IsStr(w.v) /\ Len(Strip(w.v.s)) > 0

RECURSIVE TryPaths(_, _)
\* lines 81-102: the first path that resolves, else the body pretty-printed
TryPaths(data, paths) ==
    IF Len(paths) = 0 THEN PyStr(DumpsIndent(data, 0))
    ELSE IF PathHit(WalkPath(data, paths[1])) THEN WalkPath(data, paths[1]).v
    ELSE TryPaths(data, Tail(paths))

extract_text_from_api_response(data) ==
    IF ~Truthy(data) THEN None
    ELSE IF IsStr(data) THEN data
    ELSE TryPaths(data, checks)

----------------------------------------------------------------------------
(* The request and the sample payload *)

Str(word) == PyStr(<<word>>)

\* SAMPLE_GEMINI_RAW, lines 22-51: the literal, lexeme by lexeme, a line of the
\* source to a line here
RUPEE == "<rupee>"
SAMPLE_GEMINI_RAW ==
    PyStr(
       <<JSON_START, NL>>
    \o <<"{", NL>>
    \o <<SP, SP, QUOTE, "destination_name", QUOTE, ":", SP, QUOTE, "Mathura", ",", SP, "India",
         QUOTE, ",", NL>>
    \o <<SP, SP, QUOTE, "maps_query", QUOTE, ":", SP, QUOTE, "Mathura", ",", "India", QUOTE, ",",
         NL>>
    \o <<SP, SP, QUOTE, "itinerary", QUOTE, ":", SP, "[", NL>>
    \o <<SP, SP, SP, SP, "{", SP, QUOTE, "day_number", QUOTE, ":", SP, "1", ",", SP, QUOTE,
         "summary", QUOTE, ":", SP, QUOTE, "Arrival", SP, "and", SP, "Janmabhoomi", QUOTE, ",",
         SP, QUOTE, "activities", QUOTE, ":", SP, "[", QUOTE, "Visit", SP, "Shri", SP, "Krishna",
         SP, "Janmabhoomi", QUOTE, ",", QUOTE, "Evening", SP, "aarti", QUOTE, "]", ",", SP,
         QUOTE, "approximate_cost", QUOTE, ":", SP, "500", SP, "}", ",", NL>>
    \o <<SP, SP, SP, SP, "{", SP, QUOTE, "day_number", QUOTE, ":", SP, "2", ",", SP, QUOTE,
         "summary", QUOTE, ":", SP, QUOTE, "Vrindavan", SP, "temples", QUOTE, ",", SP, QUOTE,
         "activities", QUOTE, ":", SP, "[", QUOTE, "Banke", SP, "Bihari", SP, "Temple", QUOTE,
         ",", QUOTE, "Prem", SP, "Mandir", QUOTE, "]", ",", SP, QUOTE, "approximate_cost", QUOTE,
         ":", SP, "700", SP, "}", ",", NL>>
    \o <<SP, SP, SP, SP, "{", SP, QUOTE, "day_number", QUOTE, ":", SP, "3", ",", SP, QUOTE,
         "summary", QUOTE, ":", SP, QUOTE, "Local", SP, "markets", SP, "&", SP, "departure",
         QUOTE, ",", SP, QUOTE, "activities", QUOTE, ":", SP, "[", QUOTE, "Local", SP, "markets",
         QUOTE, ",", QUOTE, "Depart", QUOTE, "]", ",", SP, QUOTE, "approximate_cost", QUOTE, ":",
         SP, "300", SP, "}", NL>>
    \o <<SP, SP, "]", ",", NL>>
    \o <<SP, SP, QUOTE, "visit_sequence", QUOTE, ":", SP, "[", NL>>
    \o <<SP, SP, SP, SP, "{", SP, QUOTE, "order", QUOTE, ":", SP, "1", ",", SP, QUOTE,
         "location_name", QUOTE, ":", SP, QUOTE, "Shri", SP, "Krishna", SP, "Janmabhoomi", QUOTE,
         ",", SP, QUOTE, "suggested_time", QUOTE, ":", SP, QUOTE, "Morning", QUOTE, ",", SP,
         QUOTE, "estimated_duration", QUOTE, ":", SP, QUOTE, "2", SP, "hours", QUOTE, ",", NL>>
    \o <<SP, SP, SP, SP, SP, SP, QUOTE, "note", QUOTE, ":", SP, QUOTE, "Start", SP, "early",
         QUOTE, ",", SP, QUOTE, "latitude", QUOTE, ":", SP, "27.4921", ",", SP, QUOTE,
         "longitude", QUOTE, ":", SP, "77.6745", ",", NL>>
    \o <<SP, SP, SP, SP, SP, SP, QUOTE, "nearby_food_recommendations", QUOTE, ":", SP, "[", "{",
         QUOTE, "name", QUOTE, ":", QUOTE, "Brijwasi", SP, "Sweets", QUOTE, ",", QUOTE, "rating",
         QUOTE, ":", "4.2", ",", QUOTE, "distance_m", QUOTE, ":", "300", ",", QUOTE,
         "price_level", QUOTE, ":", QUOTE, RUPEE, QUOTE, ",", QUOTE, "reason", QUOTE, ":", QUOTE,
         "Famous", SP, "for", SP, "pedas", QUOTE, "}", "]", NL>>
    \o <<SP, SP, SP, SP, "}", ",", NL>>
    \o <<SP, SP, SP, SP, "{", SP, QUOTE, "order", QUOTE, ":", SP, "2", ",", SP, QUOTE,
         "location_name", QUOTE, ":", SP, QUOTE, "Banke", SP, "Bihari", SP, "Temple", SP, "(",
         "Vrindavan", ")", QUOTE, ",", SP, QUOTE, "suggested_time", QUOTE, ":", SP, QUOTE,
         "Morning", QUOTE, ",", SP, QUOTE, "estimated_duration", QUOTE, ":", SP, QUOTE, "2", SP,
         "hours", QUOTE, ",", NL>>
    \o <<SP, SP, SP, SP, SP, SP, QUOTE, "note", QUOTE, ":", SP, QUOTE, "Crowded", ",", SP,
         "come", SP, "early", QUOTE, ",", SP, QUOTE, "latitude", QUOTE, ":", SP, "27.5807", ",",
         SP, QUOTE, "longitude", QUOTE, ":", SP, "77.7061", ",", NL>>
    \o <<SP, SP, SP, SP, SP, SP, QUOTE, "nearby_food_recommendations", QUOTE, ":", SP, "[", "{",
         QUOTE, "name", QUOTE, ":", QUOTE, "Local", SP, "stalls", QUOTE, ",", QUOTE, "rating",
         QUOTE, ":", "3.8", ",", QUOTE, "distance_m", QUOTE, ":", "100", ",", QUOTE,
         "price_level", QUOTE, ":", QUOTE, RUPEE, QUOTE, ",", QUOTE, "reason", QUOTE, ":", QUOTE,
         "Street", SP, "snacks", QUOTE, "}", "]", NL>>
    \o <<SP, SP, SP, SP, "}", ",", NL>>
    \o <<SP, SP, SP, SP, "{", SP, QUOTE, "order", QUOTE, ":", SP, "3", ",", SP, QUOTE,
         "location_name", QUOTE, ":", SP, QUOTE, "Govardhan", SP, "Hill", QUOTE, ",", SP, QUOTE,
         "suggested_time", QUOTE, ":", SP, QUOTE, "Afternoon", QUOTE, ",", SP, QUOTE,
         "estimated_duration", QUOTE, ":", SP, QUOTE, "3", SP, "hours", QUOTE, ",", NL>>
    \o <<SP, SP, SP, SP, SP, SP, QUOTE, "note", QUOTE, ":", SP, QUOTE, "Scenic", SP, "spot",
         QUOTE, ",", SP, QUOTE, "latitude", QUOTE, ":", SP, "27.4833", ",", SP, QUOTE,
         "longitude", QUOTE, ":", SP, "77.6750", ",", NL>>
    \o <<SP, SP, SP, SP, SP, SP, QUOTE, "nearby_food_recommendations", QUOTE, ":", SP, "[", "{",
         QUOTE, "name", QUOTE, ":", QUOTE, "Hill", SP, "Cafe", QUOTE, ",", QUOTE, "rating",
         QUOTE, ":", "4.0", ",", QUOTE, "distance_m", QUOTE, ":", "250", ",", QUOTE,
         "price_level", QUOTE, ":", QUOTE, RUPEE, RUPEE, QUOTE, ",", QUOTE, "reason", QUOTE, ":",
         QUOTE, "Good", SP, "view", QUOTE, "}", "]", NL>>
    \o <<SP, SP, SP, SP, "}", NL>>
    \o <<SP, SP, "]", ",", NL>>
    \o <<SP, SP, QUOTE, "popular_dinner_recommendations", QUOTE, ":", SP, "[", "{", QUOTE,
         "name", QUOTE, ":", QUOTE, "Brijwasi", SP, "Sweets", QUOTE, ",", QUOTE, "reason", QUOTE,
         ":", QUOTE, "Local", SP, "sweets", QUOTE, ",", QUOTE, "rating", QUOTE, ":", "4.2", ",",
         QUOTE, "price_level", QUOTE, ":", QUOTE, RUPEE, QUOTE, "}", "]", ",", NL>>
    \o <<SP, SP, QUOTE, "popular_stays", QUOTE, ":", SP, "[", "{", QUOTE, "name", QUOTE, ":",
         QUOTE, "Hotel", SP, "Madhuvan", QUOTE, ",", QUOTE, "reason", QUOTE, ":", QUOTE,
         "Comfortable", SP, "near", SP, "temples", QUOTE, ",", QUOTE, "rating", QUOTE, ":",
         "4.0", ",", QUOTE, "price_level", QUOTE, ":", QUOTE, RUPEE, RUPEE, QUOTE, ",", QUOTE,
         "address", QUOTE, ":", QUOTE, "Near", SP, "Janmabhoomi", ",", SP, "Mathura", QUOTE, "}",
         "]", ",", NL>>
    \o <<SP, SP, QUOTE, "travel_instructions", QUOTE, ":", SP, "[", NL>>
    \o <<SP, SP, SP, SP, "{", QUOTE, "from", QUOTE, ":", QUOTE, "Your", SP, "origin", QUOTE, ",",
         QUOTE, "to", QUOTE, ":", QUOTE, "Mathura", SP, "Junction", QUOTE, ",", QUOTE,
         "transport", QUOTE, ":", QUOTE, "Train/car", QUOTE, ",", QUOTE, "approx_time", QUOTE,
         ":", QUOTE, "Varies", QUOTE, ",", QUOTE, "notes", QUOTE, ":", QUOTE, "From", SP,
         "Mathura", SP, "Junction", SP, "take", SP, "a", SP, "rickshaw", SP, "to", SP,
         "Janmabhoomi", SP, "(", "~10-20", SP, "min", ")", QUOTE, "}", NL>>
    \o <<SP, SP, "]", NL>>
    \o <<"}", NL>>
    \o <<JSON_END>>)

\* request.form.get(name, "").strip()
FormField(name) == Strip(GetDefault(req.form, name, PyStr(<<>>)).s)
\* A variant that reads the destination field without .strip()
destination_unstripped == GetDefault(req.form, "destination", PyStr(<<>>)).s
destination == FormField("destination")
days == FormField("days")
origin == FormField("origin")

FLASH_DESTINATION == <<"Please provide a destination.", "">>
FlashApiError(e) == <<"Gemini API error. Showing sample response.", e>>

----------------------------------------------------------------------------
(* plan(): the handler, one action per stretch of its body *)

\* an exception leaves the handler: the request fails
Raise(e) ==
    /\ pc' = "done"
    /\ outcome' = "raised"
    /\ res' = [t |-> "exception", e |-> e]

\* lines 276-284: read the form; without a destination, flash and redirect
PlanStart ==
    /\ pc = "start"
    /\ IF Len(destination) = 0
       THEN /\ flashes' = Append(flashes, FLASH_DESTINATION)
            /\ outcome' = "redirect"
            /\ pc' = "done"
       ELSE /\ pc' = "call"
            /\ UNCHANGED <<flashes, outcome>>
    /\ UNCHANGED <<fn, arg, aux, res, req, calls, gemini_raw, parsed, itinerary,
                   visit_sequence, popular_dinners, popular_stays, travel_instructions,
                   days_n, layout, node_positions, location_to_coords, links>>

\* lines 251-253: the text call_gemini returns for the body data
GeminiText(text) == IF IsStr(text) THEN PyStr(Strip(strip_code_fences(text).s)) ELSE text

\* lines 242-243: call_gemini raises before any request when the configuration
\* is incomplete
ConfigMissing == ~req.url \/ ~req.key

\* A variant under which only a timeout raises
UpstreamRaisesOnTimeout == req.upstream = "timeout"

\* lines 248-250: the request is sent and raises: a timeout, a transport error,
\* an HTTP error status (raise_for_status), a body that is no JSON (resp.json)
UpstreamRaises == req.upstream # "ok"

\* lines 325-329 with call_gemini, lines 238-253: one call; any exception is
\* caught, flashed, and the sample payload stands in for the answer
CallGemini ==
    /\ pc = "call"
    /\ calls' = IF ConfigMissing THEN calls ELSE calls + 1
    /\ IF ConfigMissing
       THEN /\ flashes' = Append(flashes, FlashApiError("RuntimeError"))
            /\ gemini_raw' = SAMPLE_GEMINI_RAW
       ELSE IF UpstreamRaises
       THEN /\ flashes' = Append(flashes, FlashApiError(req.upstream))
            /\ gemini_raw' = SAMPLE_GEMINI_RAW
       ELSE /\ gemini_raw' = GeminiText(extract_text_from_api_response(req.data))
            /\ UNCHANGED flashes
    /\ pc' = "extract"
    /\ UNCHANGED <<fn, arg, aux, res, req, parsed, itinerary,
                   visit_sequence, popular_dinners, popular_stays, travel_instructions,
                   days_n, layout, node_positions, location_to_coords, links, outcome>>

\* lines 331-336: parsed, itinerary, visit_sequence
ExtractCore ==
    /\ pc = "extract"
    /\ parsed' = Or(extract_json_from_text(gemini_raw), PyDict(<<>>))
    /\ itinerary' = Or(Get(parsed', "itinerary"), PyList(<<>>))
    /\ visit_sequence' = normalize_visit_sequence(Or(Get(parsed', "visit_sequence"), PyList(<<>>)))
    /\ pc' = "extras"
    /\ UNCHANGED <<fn, arg, aux, res, req, calls, flashes, gemini_raw,
                   popular_dinners, popular_stays, travel_instructions,
                   days_n, layout, node_positions, location_to_coords, links, outcome>>

\* safe_load_json_like, lines 218-228; r is what json.loads made of the string x
SafeLoadStr(x, r) == IF r.ok THEN r.v ELSE Or(extract_json_from_text(x), PyList(<<>>))
safe_load_json_like(x) ==
    CASE x.t = "null" -> PyList(<<>>)
      [] x.t \in {"list", "dict"} -> x
      [] x.t = "str" -> SafeLoadStr(x, Loads(x.s))
      [] OTHER -> PyList(<<>>)

\* lines 346-349 and 359-362: one mapping becomes a list of one, anything that is
\* no list becomes the empty list
ListOfRecommendations(v) ==
    IF IsDict(v) THEN PyList(<<v>>) ELSE IF IsList(v) THEN v ELSE PyList(<<>>)

\* the field names tried in turn, lines 339-343, 352-356, 365-369
DINNER_KEYS ==
    <<"popular_dinner_recommendations", "popular_dinners", "dining",
      "dinner_recommendations", "popular_foods">>
STAY_KEYS == <<"popular_stays", "stays", "accommodations", "hotels", "recommended_stays">>
TRAVEL_KEYS == <<"travel_instructions", "travel", "directions", "route", "travel_steps">>

RECURSIVE SplitLines(_, _)
\* re.split(r"[\n\r]+", text): the lines of a text, acc being the line read so far
SplitLines(s, acc) ==
    IF Len(s) = 0 THEN <<acc>>
    ELSE IF s[1] = NL THEN <<acc>> \o SplitLines(Tail(s), <<>>)
    ELSE SplitLines(Tail(s), Append(acc, s[1]))

NonEmpty(s) == Len(s) > 0
StripAll(ls) == [i \in 1..Len(ls) |-> Strip(ls[i])]
\* line 376: the stripped lines that are not empty
StrippedLines(s) == SelectSeq(StripAll(SplitLines(s, <<>>)), NonEmpty)

\* line 377: the leg made of one line of free text
TextLeg(line) ==
    Dict(<<<<"from", PyStr(<<>>)>>, <<"to", PyStr(<<>>)>>, <<"transport", PyStr(<<>>)>>,
           <<"approx_time", PyStr(<<>>)>>, <<"notes", PyStr(line)>>>>)
TextLegs(ls) == PyList([i \in 1..Len(ls) |-> TextLeg(ls[i])])

\* lines 372-377: r is what json.loads made of the string
TravelFromLoads(r, s) == IF r.ok THEN r.v ELSE TextLegs(StrippedLines(s))

\* lines 370-383: travel_instructions from the raw field
TravelFrom(travel_raw) ==
    CASE travel_raw.t = "str" -> TravelFromLoads(Loads(travel_raw.s), travel_raw.s)
      [] travel_raw.t = "dict" -> PyList(<<travel_raw>>)
      [] travel_raw.t = "list" -> travel_raw
      [] OTHER -> PyList(<<>>)

\* lines 338-383: the recommendations and the travel instructions
NormalizeExtras ==
    /\ pc = "extras"
    /\ popular_dinners' = ListOfRecommendations(safe_load_json_like(FirstTruthy(parsed, DINNER_KEYS)))
    /\ popular_stays' = ListOfRecommendations(safe_load_json_like(FirstTruthy(parsed, STAY_KEYS)))
    /\ travel_instructions' = TravelFrom(FirstTruthy(parsed, TRAVEL_KEYS))
    /\ pc' = "days"
    /\ UNCHANGED <<fn, arg, aux, res, req, calls, flashes, gemini_raw, parsed, itinerary,
                   visit_sequence, days_n, layout, node_positions, location_to_coords,
                   links, outcome>>

\* a character str.isdigit accepts and int refuses
SUPERSCRIPT_TWO == "<superscript 2>"
\* str.isdigit on the lexemes of a text
IsDigitText(s) == Len(s) > 0 /\ \A i \in 1..Len(s) : s[i] \in DigitLexemes \cup {SUPERSCRIPT_TWO}

\* len(v) or 1
LenOrOne(v) == IF PyLen(v) = 0 THEN 1 ELSE PyLen(v)

\* lines 385-389: days_n; the handler of the try evaluates len(itinerary) again,
\* so a value without a length raises out of the handler
DaysN ==
    /\ pc = "days"
    /\ IF IsDigitText(days) /\ IntOfText(days).ok
       THEN /\ days_n' = IntOfText(days).n
            /\ pc' = "synth"
            /\ UNCHANGED <<outcome, res>>
       ELSE IF HasLen(itinerary)
       THEN /\ days_n' = LenOrOne(itinerary)
            /\ pc' = "synth"
            /\ UNCHANGED <<outcome, res>>
       ELSE /\ Raise("TypeError")
            /\ UNCHANGED days_n
    /\ UNCHANGED <<fn, arg, aux, req, calls, flashes, gemini_raw, parsed, itinerary,
                   visit_sequence, popular_dinners, popular_stays, travel_instructions,
                   layout, node_positions, location_to_coords, links>>

\* f"Place {n}"
PlaceName(n) == PyStr(<<"Place", SP, LexOf(n)>>)

\* lines 398-407: the visit made of an activity
SynthVisit(idx, name, foods) ==
    Dict(<<<<"order", PyInt(idx)>>, <<"location_name", name>>,
           <<"suggested_time", PyStr(<<>>)>>, <<"estimated_duration", PyStr(<<>>)>>,
           <<"note", PyStr(<<>>)>>, <<"latitude", None>>, <<"longitude", None>>,
           <<"nearby_food_recommendations", PyList(foods)>>>>)

\* l[:2]
FirstTwo(l) == SubSeq(l, 1, Min(2, Len(l)))

SynthFail(e) == [ok |-> FALSE, v |-> <<>>, idx |-> 0, e |-> e]

RECURSIVE SynthActs(_, _, _, _)
\* lines 396-408: the visits of the activities of one day, acc those made so far;
\* an activity that is neither a string nor a mapping has no get
SynthActs(acts, idx, acc, foods) ==
    IF Len(acts) = 0 THEN [ok |-> TRUE, v |-> acc, idx |-> idx, e |-> ""]
    ELSE IF IsStr(acts[1])
    THEN SynthActs(Tail(acts), idx + 1, Append(acc, SynthVisit(idx, acts[1], foods)), foods)
    ELSE IF IsDict(acts[1])
    THEN SynthActs(Tail(acts), idx + 1,
                   Append(acc, SynthVisit(idx, GetDefault(acts[1], "name", PlaceName(idx)), foods)),
                   foods)
    ELSE SynthFail("AttributeError")

\* line 395: day.get("activities") or []
Activities(day) == Or(Get(day, "activities"), PyList(<<>>))

RECURSIVE SynthDays(_, _, _, _), SynthDayDone(_, _, _)
\* lines 394-408: a day that is no mapping has no get; activities that cannot be
\* iterated raise
SynthDays(ds, idx, acc, foods) ==
    IF Len(ds) = 0 THEN [ok |-> TRUE, v |-> acc, idx |-> idx, e |-> ""]
    ELSE IF ~IsDict(ds[1]) THEN SynthFail("AttributeError")
    ELSE IF ~Iterable(Activities(ds[1])) THEN SynthFail("TypeError")
    ELSE SynthDayDone(Tail(ds), SynthActs(IterItems(Activities(ds[1])), idx, acc, foods), foods)
SynthDayDone(rest, r, foods) == IF ~r.ok THEN r ELSE SynthDays(rest, r.idx, r.v, foods)

\* A variant that gives every visit the whole popular-food list
SynthFromItineraryAllFoods == SynthDays(IterItems(itinerary), 1, <<>>, popular_dinners.l)

\* the loop of lines 394-408 over the itinerary, which can be iterated
SynthFromItinerary == SynthDays(IterItems(itinerary), 1, <<>>, FirstTwo(popular_dinners.l))

\* lines 391-408: without visits, the visits are made from the itinerary
Synthesize ==
    /\ pc = "synth"
    /\ IF Truthy(visit_sequence) \/ ~Truthy(itinerary)
       THEN /\ pc' = "sort"
            /\ UNCHANGED <<visit_sequence, outcome, res>>
       ELSE IF ~Iterable(itinerary)
       THEN /\ Raise("TypeError")
            /\ UNCHANGED visit_sequence
       ELSE IF ~SynthFromItinerary.ok
       THEN /\ Raise(SynthFromItinerary.e)
            /\ UNCHANGED visit_sequence
       ELSE /\ visit_sequence' = PyList(SynthFromItinerary.v)
            /\ pc' = "sort"
            /\ UNCHANGED <<outcome, res>>
    /\ UNCHANGED <<fn, arg, aux, req, calls, flashes, gemini_raw, parsed, itinerary,
                   popular_dinners, popular_stays, travel_instructions, days_n, layout,
                   node_positions, location_to_coords, links>>

\* line 412: the sort key, int(x.get("order", 0))
OrderKey(x) == IntConv(GetDefault(x, "order", PyInt(0)))

\* x put into a sorted sequence after every item whose key is not above its own
InsertByKey(sorted, x) ==
    LET n == Cardinality({i \in 1..Len(sorted) : OrderKey(sorted[i]).n <= OrderKey(x).n})
    IN SubSeq(sorted, 1, n) \o <<x>> \o SubSeq(sorted, n + 1, Len(sorted))

RECURSIVE SortedByOrder(_)
\* sorted(l, key=...): stable, items of equal key keep their order
SortedByOrder(l) ==
    IF Len(l) = 0 THEN <<>>
    ELSE InsertByKey(SortedByOrder(SubSeq(l, 1, Len(l) - 1)), l[Len(l)])

\* lines 410-414: the sort; when a key cannot be computed the exception is passed
\* over and the sequence stays as it is
FinalSort ==
    /\ pc = "sort"
    /\ visit_sequence' =
          IF \A i \in 1..Len(visit_sequence.l) : OrderKey(visit_sequence.l[i]).ok
          THEN PyList(SortedByOrder(visit_sequence.l))
          ELSE visit_sequence
    /\ pc' = "layout"
    /\ UNCHANGED <<fn, arg, aux, res, req, calls, flashes, gemini_raw, parsed, itinerary,
                   popular_dinners, popular_stays, travel_instructions, days_n, layout,
                   node_positions, location_to_coords, links, outcome>>

----------------------------------------------------------------------------
(* plan(): the grid and the nodes *)

DEFAULT_MAX_COLS == 6
svg_width == 1400
row_height == 160
MIN_SVG_HEIGHT == 260
SVG_PADDING == 80
margin_x == 80
margin_top == 40
ROW_GAP == 6
usable_width == svg_width - margin_x * 2

\* line 418: int(os.environ.get("TREASUREMAP_MAX_COLS", 6))
MaxColsConv ==
    IF req.max_cols_env.t = "null" THEN [ok |-> TRUE, n |-> DEFAULT_MAX_COLS]
    ELSE IntConv(req.max_cols_env)

\* lines 419-427, cols being min(n_nodes, max_cols), not zero
LayoutOfCols(n_nodes, max_cols, cols) ==
    [n_nodes |-> n_nodes, max_cols |-> max_cols, cols |-> cols,
     rows |-> PyCeilDiv(n_nodes, cols),
     svg_height |-> Max(MIN_SVG_HEIGHT, PyCeilDiv(n_nodes, cols) * row_height + SVG_PADDING),
     col_step |-> IF cols > 1 THEN PyFloorDiv(usable_width, Max(1, cols - 1)) ELSE 0,
     cells |-> <<>>]

\* line 417
n_nodes == Max(1, Len(visit_sequence.l))

\* lines 416-427: the grid; a column setting that is no integer and a grid of no
\* columns raise
Layout ==
    /\ pc = "layout"
    /\ IF ~MaxColsConv.ok
       THEN /\ Raise("ValueError")
            /\ UNCHANGED layout
       ELSE IF Min(n_nodes, MaxColsConv.n) = 0
       THEN /\ Raise("ZeroDivisionError")
            /\ UNCHANGED layout
       ELSE /\ layout' = LayoutOfCols(n_nodes, MaxColsConv.n, Min(n_nodes, MaxColsConv.n))
            /\ pc' = "nodes"
            /\ UNCHANGED <<outcome, res>>
    /\ UNCHANGED <<fn, arg, aux, req, calls, flashes, gemini_raw, parsed, itinerary,
                   visit_sequence, popular_dinners, popular_stays, travel_instructions,
                   days_n, node_positions, location_to_coords, links>>

\* lines 433-436: the cell and the position of the node at index idx
NodeCol(idx) == PyMod(idx, layout.cols)
\* A variant that rounds the row up
NodeRowCeil(idx) == PyCeilDiv(idx, layout.cols)
NodeRow(idx) == PyFloorDiv(idx, layout.cols)
NodeX(idx) == IF layout.cols > 1 THEN margin_x + NodeCol(idx) * layout.col_step
              ELSE PyFloorDiv(svg_width, 2)
NodeY(idx) == margin_top + NodeRow(idx) * row_height + NodeRow(idx) * ROW_GAP

\* line 441
NodeOrder(v, idx) == IntConv(GetDefault(v, "order", PyInt(idx + 1)))

\* A variant that takes the location_name field as it is
NodeLocationNameAsGiven(v, idx) == Get(v, "location_name")

\* line 442
NodeLocationName(v, idx) ==
    Or(Or(Get(v, "location_name"), Get(v, "name")), PlaceName(idx + 1))

\* lines 440-451
Node(v, idx) ==
    Dict(<<<<"order", PyInt(NodeOrder(v, idx).n)>>,
           <<"location_name", NodeLocationName(v, idx)>>,
           <<"suggested_time", GetDefault(v, "suggested_time", PyStr(<<>>))>>,
           <<"estimated_duration", GetDefault(v, "estimated_duration", PyStr(<<>>))>>,
           <<"note", GetDefault(v, "note", PyStr(<<>>))>>,
           <<"latitude", Get(v, "latitude")>>,
           <<"longitude", Get(v, "longitude")>>,
           <<"nearby_food_recommendations",
             Or(Get(v, "nearby_food_recommendations"), PyList(<<>>))>>,
           <<"x", PyInt(NodeX(idx))>>,
           <<"y", PyInt(NodeY(idx))>>>>)

\* str(float(v)) where float(v) succeeds
FloatText(v) ==
    CASE v.t = "float" -> <<v.f>>
      [] v.t = "int" -> <<LexOf(v.i), ".0">>
      [] v.t = "bool" -> <<IF v.b THEN "1" ELSE "0", ".0">>
      [] v.t = "str" -> IF Strip(v.s)[1] \in IntLexemes THEN <<Strip(v.s)[1], ".0">>
                        ELSE <<FloatCanon(Strip(v.s)[1])>>

IsNone(v) == v.t = "null"
HasCoordinates(d) == ~IsNone(Get(d, "latitude")) /\ ~IsNone(Get(d, "longitude"))

\* lines 454-458: the entry of the node, unless a conversion or the key raises
CoordsWith(coords, v, idx) ==
    IF /\ HasCoordinates(v)
       /\ FloatOk(Get(v, "latitude")) /\ FloatOk(Get(v, "longitude"))
       /\ Hashable(NodeLocationName(v, idx))
    THEN DictSet(coords, NodeLocationName(v, idx),
                 PyStr(FloatText(Get(v, "latitude")) \o <<",">> \o FloatText(Get(v, "longitude"))))
    ELSE coords

AddNode(acc, v, idx) ==
    [ok |-> TRUE, nodes |-> Append(acc.nodes, Node(v, idx)),
     coords |-> CoordsWith(acc.coords, v, idx),
     cells |-> Append(acc.cells, <<NodeCol(idx), NodeRow(idx)>>)]

RECURSIVE NodesFrom(_, _, _)
\* lines 431-458: the loop from index idx on; an order that int refuses raises
NodesFrom(vs, idx, acc) ==
    IF idx >= Len(vs) THEN acc
    ELSE IF ~IsDict(vs[idx + 1]) THEN NodesFrom(vs, idx + 1, acc)
    ELSE IF ~NodeOrder(vs[idx + 1], idx).ok THEN [acc EXCEPT !.ok = FALSE]
    ELSE NodesFrom(vs, idx + 1, AddNode(acc, vs[idx + 1], idx))

BuiltNodes ==
    NodesFrom(visit_sequence.l, 0, [ok |-> TRUE, nodes |-> <<>>, coords |-> <<>>, cells |-> <<>>])

\* lines 429-458: node_positions and location_to_coords
BuildNodes ==
    /\ pc = "nodes"
    /\ IF BuiltNodes.ok
       THEN /\ node_positions' = BuiltNodes.nodes
            /\ location_to_coords' = BuiltNodes.coords
            /\ layout' = [layout EXCEPT !.cells = BuiltNodes.cells]
            /\ pc' = "links"
            /\ UNCHANGED <<outcome, res>>
       ELSE /\ Raise("TypeError or ValueError")
            /\ UNCHANGED <<node_positions, location_to_coords, layout>>
    /\ UNCHANGED <<fn, arg, aux, req, calls, flashes, gemini_raw, parsed, itinerary,
                   visit_sequence, popular_dinners, popular_stays, travel_instructions,
                   days_n, links>>

----------------------------------------------------------------------------
(* plan(): the map links and the travel legs *)

RECURSIVE Repr(_), ReprItems(_), ReprPairs(_)
\* repr(v): strings in single quotes, None, True and False spelled out
Repr(v) ==
    CASE v.t = "null" -> <<"None">>
      [] v.t = "bool" -> IF v.b THEN <<"True">> ELSE <<"False">>
      [] v.t = "int" -> <<LexOf(v.i)>>
      [] v.t = "float" -> <<v.f>>
      [] v.t = "str" -> <<"'">> \o v.s \o <<"'">>
      [] v.t = "list" -> <<"[">> \o ReprItems(v.l) \o <<"]">>
      [] v.t = "dict" -> <<"{">> \o ReprPairs(v.d) \o <<"}">>
ReprItems(l) ==
    IF Len(l) = 0 THEN <<>>
    ELSE IF Len(l) = 1 THEN Repr(l[1])
    ELSE Repr(l[1]) \o <<",", SP>> \o ReprItems(Tail(l))
ReprPairs(d) ==
    IF Len(d) = 0 THEN <<>>
    ELSE IF Len(d) = 1 THEN <<"'">> \o d[1][1] \o <<"'", ":", SP>> \o Repr(d[1][2])
    ELSE <<"'">> \o d[1][1] \o <<"'", ":", SP>> \o Repr(d[1][2]) \o <<",", SP>> \o ReprPairs(Tail(d))

\* str(v): a string is its own text, every other value is written as repr does
PyStrText(v) == IF IsStr(v) THEN v.s ELSE Repr(v)

\* quote_plus on one lexeme: a space becomes a plus, a reserved character its
\* percent code, and the percent sign of a code is coded again; words and numbers
\* are made of unreserved characters
QuoteLex(c) ==
    CASE c = SP -> "+"
      [] c = "," -> "%2C"
      [] c = "|" -> "%7C"
      [] c = ":" -> "%3A"
      [] c = "(" -> "%28"
      [] c = ")" -> "%29"
      [] c = "[" -> "%5B"
      [] c = "]" -> "%5D"
      [] c = "{" -> "%7B"
      [] c = "}" -> "%7D"
      [] c = "'" -> "%27"
      [] c = QUOTE -> "%22"
      [] c = NL -> "%0A"
      [] c = "+" -> "%2B"
      [] c = "%2C" -> "%252C"
      [] c = "%28" -> "%2528"
      [] c = "%29" -> "%2529"
      [] c = "%3A" -> "%253A"
      [] OTHER -> c
quote_plus(s) == [i \in 1..Len(s) |-> QuoteLex(s[i])]

RECURSIVE urlencode(_)
\* urlencode(params): name=value pairs joined by &, each value through
\* quote_plus; params is the sequence of <<name, text of the value>>
urlencode(params) ==
    IF Len(params) = 0 THEN <<>>
    ELSE <<params[1][1], "=">> \o quote_plus(params[1][2])
            \o (IF Len(params) = 1 THEN <<>> ELSE <<"&">> \o urlencode(Tail(params)))

MAPS_DIR_URL == "https://www.google.com/maps/dir/?"
MAPS_SEARCH_URL == "https://www.google.com/maps/search/?api=1&query="

\* build_maps_dir_link(origin, destination), lines 255-267; no caller passes
\* waypoints
build_maps_dir_link(o, d) ==
    IF ~Truthy(d) THEN None
    ELSE PyStr(<<MAPS_DIR_URL>> \o
               urlencode(<<<<"api", <<"1">>>>,
                           <<"origin", PyStrText(Or(o, PyStr(<<>>)))>>,
                           <<"destination", PyStrText(d)>>,
                           <<"travelmode", <<"driving">>>>>>))

NotSpaceLex(c) == c # SP
NotWhite(c) ==  ~IsSpace(c)
NumberLexemes == IntLexemes \cup FloatLexemes

\* line 478: the text is a pair of numbers with a comma between them, white
\* space around the comma allowed
IsCoordinateText(t) ==
    /\ Len(SelectSeq(t, NotWhite)) = 3
    /\ SelectSeq(t, NotWhite)[1] \in NumberLexemes
    /\ SelectSeq(t, NotWhite)[2] = ","
    /\ SelectSeq(t, NotWhite)[3] \in NumberLexemes
    /\ t[1] \in NumberLexemes /\ t[Len(t)] \in NumberLexemes

\* lines 477-480, on the stripped text of q
MapsQueryOfText(t) == IF IsCoordinateText(t) THEN SelectSeq(t, NotSpaceLex) ELSE quote_plus(t)

\* build_maps_query(q), lines 474-480
build_maps_query(q) == IF ~Truthy(q) THEN <<>> ELSE MapsQueryOfText(Strip(PyStrText(q)))

\* line 471 before .strip(), and line 472
DestinationForSearch ==
    Or(Or(Get(parsed, "destination_name"), Get(parsed, "maps_query")), PyStr(destination))
destination_for_dirs ==
    Or(Or(Get(parsed, "maps_query"), Get(parsed, "destination_name")), PyStr(destination))

\* lines 487-492
MapsLink ==
    IF ~Truthy(destination_for_dirs) THEN None
    ELSE PyStr(<<MAPS_DIR_URL>> \o
               urlencode(<<<<"api", <<"1">>>>,
                           <<"destination", build_maps_query(destination_for_dirs)>>>>
                         \o (IF Len(origin) > 0 THEN <<<<"origin", origin>>>> ELSE <<>>)
                         \o <<<<"travelmode", <<"driving">>>>>>))

\* lines 494-496, s being destination_for_search
MapsSearchLink(s) ==
    IF Len(s) = 0 THEN None ELSE PyStr(<<MAPS_SEARCH_URL>> \o build_maps_query(PyStr(s)))

\* line 500: f"{lat},{lon}"
CoordinatePair(n) == PyStrText(Get(n, "latitude")) \o <<",">> \o PyStrText(Get(n, "longitude"))

\* lines 497-500: the coordinate pairs of the nodes that have both
PairsOf(nodes) ==
    LET with == SelectSeq(nodes, HasCoordinates)
    IN [i \in 1..Len(with) |-> CoordinatePair(with[i])]

RECURSIVE JoinPipe(_)
\* "|".join(l)
JoinPipe(l) ==
    IF Len(l) = 0 THEN <<>>
    ELSE IF Len(l) = 1 THEN l[1]
    ELSE l[1] \o <<"|">> \o JoinPipe(Tail(l))

\* A variant that starts at the first pair whatever the form's origin
DirectionsOfNodesOnly(coords) ==
    PyStr(<<MAPS_DIR_URL>> \o
          urlencode(<<<<"api", <<"1">>>>, <<"origin", coords[1]>>,
                      <<"destination", coords[Len(coords)]>>,
                      <<"travelmode", <<"driving">>>>>>
                    \o (IF Len(coords) > 2
                        THEN <<<<"waypoints", JoinPipe(SubSeq(coords, 2, Len(coords) - 1))>>>>
                        ELSE <<>>)))

\* lines 501-514, coords not empty
DirectionsOf(coords) ==
    LET origin_param == IF Len(origin) > 0 THEN origin ELSE coords[1]
        waypoints == IF Len(origin) > 0 THEN SubSeq(coords, 1, Len(coords) - 1)
                     ELSE SubSeq(coords, 2, Len(coords) - 1)
    IN PyStr(<<MAPS_DIR_URL>> \o
             urlencode(<<<<"api", <<"1">>>>, <<"origin", origin_param>>,
                         <<"destination", coords[Len(coords)]>>,
                         <<"travelmode", <<"driving">>>>>>
                       \o (IF Len(JoinPipe(waypoints)) > 0
                           THEN <<<<"waypoints", JoinPipe(waypoints)>>>> ELSE <<>>)))

\* lines 497-514
MapsDirectionsLink(coords) == IF Len(coords) = 0 THEN None ELSE DirectionsOf(coords)

ConvertibleCoordinates(n) ==
    HasCoordinates(n) /\ FloatOk(Get(n, "latitude")) /\ FloatOk(Get(n, "longitude"))

\* lines 460-468: the pairs of floats for the map, a node whose coordinates float
\* refuses left out
CoordsList(nodes) ==
    LET with == SelectSeq(nodes, ConvertibleCoordinates)
    IN [i \in 1..Len(with) |->
            <<FloatText(Get(with[i], "latitude")), FloatText(Get(with[i], "longitude"))>>]

\* lines 460-516: the links; a destination name that is no string has no strip
Links ==
    /\ pc = "links"
    /\ IF ~IsStr(DestinationForSearch)
       THEN /\ Raise("AttributeError")
            /\ UNCHANGED links
       ELSE /\ links' = [coords_list |-> CoordsList(node_positions),
                         maps_link |-> MapsLink,
                         maps_search_link |-> MapsSearchLink(Strip(DestinationForSearch.s)),
                         maps_iframe_src |-> MapsSearchLink(Strip(DestinationForSearch.s)),
                         maps_directions_link |-> MapsDirectionsLink(PairsOf(node_positions))]
            /\ pc' = "travel"
            /\ UNCHANGED <<outcome, res>>
    /\ UNCHANGED <<fn, arg, aux, req, calls, flashes, gemini_raw, parsed, itinerary,
                   visit_sequence, popular_dinners, popular_stays, travel_instructions,
                   days_n, layout, node_positions, location_to_coords>>

\* lines 523-524
LegFrom(leg) == IF IsDict(leg) THEN Get(leg, "from") ELSE PyStr(<<>>)
LegTo(leg) == IF IsDict(leg) THEN Get(leg, "to") ELSE PyStr(<<>>)

\* lines 526-527: location_to_coords.get(name) hashes the name
LegRaises(leg) == ~Hashable(LegFrom(leg)) \/ ~Hashable(LegTo(leg))

\* A variant that links the two names when neither has coordinates
LegMapOfNames(from_name, to_name, from_coords, to_coords) ==
    IF Truthy(from_coords) /\ Truthy(to_coords) THEN build_maps_dir_link(from_coords, to_coords)
    ELSE IF Truthy(from_coords) /\ Truthy(to_name) THEN build_maps_dir_link(from_coords, to_name)
    ELSE IF Truthy(to_coords) /\ Truthy(from_name) THEN build_maps_dir_link(from_name, to_coords)
    ELSE IF Truthy(from_name) /\ Truthy(to_name) THEN build_maps_dir_link(from_name, to_name)
    ELSE links.maps_directions_link

\* lines 528-536
LegMapOf(from_name, to_name, from_coords, to_coords) ==
    IF Truthy(from_coords) /\ Truthy(to_coords) THEN build_maps_dir_link(from_coords, to_coords)
    ELSE IF Truthy(from_coords) /\ Truthy(to_name) THEN build_maps_dir_link(from_coords, to_name)
    ELSE IF Truthy(to_coords) /\ Truthy(from_name) THEN build_maps_dir_link(from_name, to_coords)
    ELSE links.maps_directions_link

LegMap(leg) ==
    LegMapOf(LegFrom(leg), LegTo(leg),
             Lookup(location_to_coords, LegFrom(leg)), Lookup(location_to_coords, LegTo(leg)))

\* lines 537-539
Enriched(leg) ==
    PyDict(DictSet(IF IsDict(leg) THEN leg.d ELSE <<<<Key("notes"), PyStr(PyStrText(leg))>>>>,
                   Key("map_link"), LegMap(leg)))

\* haversine_km, lines 230-236, and line 553, for the coordinates of the model:
\* the minutes at 30 km/h, at least 5
MinutesTable ==
    {<<"27.4921", "77.6745", "27.5807", "77.7061", "20">>,
     <<"27.5807", "77.7061", "27.4921", "77.6745", "20">>,
     <<"27.4921", "77.6745", "27.4833", "77.675", "5">>,
     <<"27.4833", "77.675", "27.4921", "77.6745", "5">>,
     <<"27.5807", "77.7061", "27.4833", "77.675", "22">>,
     <<"27.4833", "77.675", "27.5807", "77.7061", "22">>,
     <<"27.4921", "77.6745", "27.4921", "77.6745", "5">>,
     <<"27.5807", "77.7061", "27.5807", "77.7061", "5">>,
     <<"27.4833", "77.675", "27.4833", "77.675", "5">>}
Minutes(lat1, lon1, lat2, lon2) ==
    (CHOOSE r \in MinutesTable :
        r[1] = lat1[1] /\ r[2] = lon1[1] /\ r[3] = lat2[1] /\ r[4] = lon2[1])[5]

\* lines 547-556
ApproxTime(a, b) ==
    IF ConvertibleCoordinates(a) /\ ConvertibleCoordinates(b)
    THEN PyStr(<<Minutes(FloatText(Get(a, "latitude")), FloatText(Get(a, "longitude")),
                         FloatText(Get(b, "latitude")), FloatText(Get(b, "longitude"))),
                 SP, "min">>)
    ELSE PyStr(<<>>)

\* lines 557-558
LegEnd(n) == IF HasCoordinates(n) THEN PyStr(CoordinatePair(n)) ELSE Get(n, "location_name")

\* lines 544-567: the leg from node a to node b
SynthLeg(a, b) ==
    Dict(<<<<"from", Get(a, "location_name")>>, <<"to", Get(b, "location_name")>>,
           <<"transport", PyStr(<<"Taxi/Auto">>)>>,
           <<"approx_time", ApproxTime(a, b)>>,
           <<"notes", PyStr(<<>>)>>,
           <<"map_link", build_maps_dir_link(LegEnd(a), LegEnd(b))>>>>)

\* lines 543-568
Synthesized(nodes) == [i \in 1..(Len(nodes) - 1) |-> SynthLeg(nodes[i], nodes[i + 1])]

EnrichedTravel(legs) == [i \in 1..Len(legs) |-> Enriched(legs[i])]

\* lines 518-577: the legs of the answer with their links, else the legs between
\* consecutive nodes; a leg whose from or to cannot be hashed raises, and so do
\* instructions that cannot be iterated
Travel ==
    /\ pc = "travel"
    /\ IF ~Iterable(travel_instructions)
       THEN /\ Raise("TypeError")
            /\ UNCHANGED travel_instructions
       ELSE IF \E i \in 1..Len(IterItems(travel_instructions)) :
                    LegRaises(IterItems(travel_instructions)[i])
       THEN /\ Raise("TypeError")
            /\ UNCHANGED travel_instructions
       ELSE /\ travel_instructions' =
                  IF Len(IterItems(travel_instructions)) > 0
                  THEN PyList(EnrichedTravel(IterItems(travel_instructions)))
                  ELSE PyList(Synthesized(node_positions))
            /\ pc' = "render"
            /\ UNCHANGED <<outcome, res>>
    /\ UNCHANGED <<fn, arg, aux, req, calls, flashes, gemini_raw, parsed, itinerary,
                   visit_sequence, popular_dinners, popular_stays, days_n, layout,
                   node_positions, location_to_coords, links>>

\* lines 579-606: the page is rendered from the locals
Render ==
    /\ pc = "render"
    /\ outcome' = "rendered"
    /\ pc' = "done"
    /\ UNCHANGED <<fn, arg, aux, res, req, calls, flashes, gemini_raw, parsed, itinerary,
                   visit_sequence, popular_dinners, popular_stays, travel_instructions,
                   days_n, layout, node_positions, location_to_coords, links>>

----------------------------------------------------------------------------
(* The requests the handler is run on *)

\* a request: the form, whether GEMINI_API_URL and GEMINI_API_KEY are set, the
\* TREASUREMAP_MAX_COLS setting (None when unset), how the upstream call ends and
\* the JSON body the upstream answers with
Request(form, url, key, env, upstream, data) ==
    [form |-> form, url |-> url, key |-> key, max_cols_env |-> env,
     upstream |-> upstream, data |-> data]

\* the form; dest is None when the form has no destination field
Form(dest, d, o) ==
    PyDict((IF dest.t = "null" THEN <<>> ELSE <<<<Key("destination"), dest>>>>)
           \o <<<<Key("days"), PyStr(d)>>, <<Key("origin"), PyStr(o)>>>>)

\* the body of a generateContent answer that carries the text
Body(text) ==
    Dict(<<<<"candidates",
             PyList(<<Dict(<<<<"content",
                               Dict(<<<<"parts",
                                        PyList(<<Dict(<<<<"text", PyStr(text)>>>>)>>)>>>>)>>>>)>>)>>>>)

\* the answer the prompt asks for: one JSON object between the markers
Answer(obj) == <<JSON_START, NL>> \o Dumps(obj) \o <<NL, JSON_END>>

SeqsUpTo(S, n) == UNION {[1..k -> S] : k \in 0..n}

PARIS == PyStr(<<"Paris">>)
Asked(days_text, origin_text, env, data) ==
    Request(Form(PARIS, days_text, origin_text), TRUE, TRUE, env, "ok", data)

\* Form, configuration and upstream outcome
DestinationInputs ==
    {None, PyStr(<<>>), PyStr(<<SP>>), PyStr(<<SP, NL>>), PARIS, PyStr(<<SP, "Paris", SP>>)}
UpstreamOutcomes == {"ok", "timeout", "connection_error", "http_error", "invalid_json"}
Visit(pairs) == Dict(pairs)
VISIT_A ==
    Visit(<<<<"order", PyInt(1)>>, <<"location_name", Str("A")>>,
            <<"latitude", PyFloat("27.4921")>>, <<"longitude", PyFloat("77.6745")>>>>)
VISIT_B == Visit(<<<<"order", PyInt(2)>>, <<"name", Str("B")>>>>)
VISIT_C == Visit(<<<<"location_name", Str("C")>>>>)
VISIT_D == PyDict(<<>>)
VISIT_E ==
    Visit(<<<<"order", PyInt(0)>>, <<"location_name", PyStr(<<>>)>>, <<"name", Str("E")>>,
            <<"latitude", PyFloat("27.5807")>>, <<"longitude", PyFloat("77.7061")>>>>)
VISIT_F == Visit(<<<<"order", PyStr(<<"2">>)>>, <<"location_name", Str("F")>>>>)
VisitPool == {VISIT_A, VISIT_B, VISIT_C, VISIT_D, VISIT_E, VISIT_F}

GoodAnswer == Answer(Dict(<<<<"visit_sequence", PyList(<<VISIT_A, VISIT_B>>)>>>>))

ConfigRequests ==
    {Request(Form(dest, <<>>, o), url, key, None, up, data) :
        dest \in DestinationInputs, o \in {<<>>, <<"Delhi">>},
        url \in BOOLEAN, key \in BOOLEAN, up \in UpstreamOutcomes,
        data \in {Body(GoodAnswer), PyDict(<<>>)}}

\* Answers with every sequence of visits of the pool
VisitRequests ==
    {Asked(<<>>, <<>>, None, Body(Answer(Dict(<<<<"visit_sequence", PyList(vs)>>>>)))) :
        vs \in SeqsUpTo(VisitPool, MaxVisits)}

\* Answers whose fields have the wrong type or an unusual shape
Leg(from, to) == Dict(<<<<"from", from>>, <<"to", to>>>>)
ShapedObjects ==
    { Dict(<<<<"itinerary", PyList(<<PyStr(<<"Day", SP, "1">>)>>)>>>>),
      Dict(<<<<"itinerary", PyInt(5)>>>>),
      Dict(<<<<"itinerary", PyList(<<Dict(<<<<"activities", PyList(<<PyInt(5)>>)>>>>)>>)>>>>),
      Dict(<<<<"itinerary", PyList(<<Dict(<<<<"activities", PyInt(5)>>>>)>>)>>>>),
      Dict(<<<<"itinerary",
               PyList(<<Dict(<<<<"activities",
                                 PyList(<<Str("Fort"), Dict(<<<<"name", Str("Lake")>>>>),
                                          PyDict(<<>>)>>)>>>>),
                        PyDict(<<>>)>>)>>,
             <<"popular_foods", Dict(<<<<"name", Str("Cafe")>>>>)>>,
             <<"hotels", PyStr(Dumps(PyList(<<Dict(<<<<"name", Str("Inn")>>>>)>>)))>>>>),
      Dict(<<<<"visit_sequence",
               PyList(<<Visit(<<<<"order", None>>, <<"location_name", Str("A")>>>>)>>)>>>>),
      Dict(<<<<"visit_sequence",
               PyList(<<Visit(<<<<"order", Str("first")>>, <<"location_name", Str("A")>>>>)>>)>>>>),
      Dict(<<<<"visit_sequence",
               PyList(<<Visit(<<<<"order", PyFloat("4.2")>>, <<"location_name", PyInt(5)>>>>)>>)>>>>),
      Dict(<<<<"visit_sequence", PyStr(Dumps(PyList(<<VISIT_B, VISIT_A>>)))>>>>),
      Dict(<<<<"visit_sequence",
               PyList(<<Visit(<<<<"location_name", PyList(<<Str("A")>>)>>,
                                <<"latitude", Str("north")>>, <<"longitude", PyInt(1)>>>>),
                        VISIT_A>>)>>>>),
      Dict(<<<<"destination_name", PyInt(5)>>>>),
      Dict(<<<<"destination_name", PyStr(<<SP>>)>>>>),
      Dict(<<<<"destination_name", PyStr(<<"Agra", ",", SP, "India">>)>>,
             <<"maps_query", PyStr(<<"27.4921", ",", SP, "77.6745">>)>>>>),
      Dict(<<<<"travel_instructions", PyList(<<Leg(PyList(<<Str("A")>>), Str("B"))>>)>>>>),
      Dict(<<<<"travel_instructions", Str("null")>>>>),
      Dict(<<<<"travel", PyStr(<<"bus", NL, SP, NL, "walk", SP>>)>>>>),
      Dict(<<<<"route", Leg(Str("A"), Str("B"))>>>>),
      Dict(<<<<"visit_sequence", PyList(<<VISIT_A, VISIT_E, VISIT_C>>)>>,
             <<"travel_instructions",
               PyList(<<Leg(Str("A"), Str("E")), Leg(Str("A"), Str("Z")),
                        Leg(Str("Z"), Str("E")), Leg(Str("Y"), PyInt(5)), Str("walk")>>)>>>>),
      Dict(<<<<"visit_sequence", PyList(<<VISIT_A, VISIT_C>>)>>,
             <<"travel_instructions",
               PyList(<<Leg(Str("C"), Str("Z")), Leg(Str("A"), PyStr(<<>>)),
                        Leg(Str("A"), Str("C")), Dict(<<<<"to", Str("A")>>>>)>>)>>>>),
      Dict(<<<<"visit_sequence", PyList(<<VISIT_C>>)>>,
             <<"route", Leg(Str("C"), Str("Z"))>>>>),
      Dict(<<<<"itinerary",
               PyList(<<Dict(<<<<"day_number", PyInt(1)>>,
                               <<"activities", PyList(<<Str("Fort"), Str("Lake")>>)>>>>),
                        Dict(<<<<"day_number", PyInt(2)>>, <<"activities", PyList(<<>>)>>>>),
                        Dict(<<<<"day_number", PyInt(3)>>,
                               <<"activities", PyList(<<Dict(<<<<"name", Str("Market")>>>>)>>)>>>>)>>)>>,
             <<"popular_dinners",
               PyList(<<Dict(<<<<"name", Str("Cafe")>>>>), Dict(<<<<"name", Str("Inn")>>>>),
                        Dict(<<<<"name", Str("Stall")>>>>)>>)>>>>) }
DaysInputs == {<<>>, <<"2">>, <<SUPERSCRIPT_TWO>>}
ShapedRequests ==
    {Asked(d, o, None, Body(Answer(obj))) :
        d \in DaysInputs, o \in {<<>>, <<"Delhi">>}, obj \in ShapedObjects}

\* Bodies of other forms than the one asked for
OtherBodies ==
    { PyStr(GoodAnswer),
      Dict(<<<<"text", PyStr(GoodAnswer)>>>>),
      Dict(<<<<"candidates", PyList(<<Dict(<<<<"text", PyStr(GoodAnswer)>>>>)>>)>>>>),
      Dict(<<<<"candidates", PyList(<<>>)>>,
             <<"response", Dict(<<<<"text", PyStr(<<FENCE, TAG, NL>> \o GoodAnswer \o <<NL, FENCE>>)>>>>)>>>>),
      Dict(<<<<"error", Dict(<<<<"code", PyInt(500)>>>>)>>>>),
      PyList(<<PyInt(1)>>),
      Body(<<"no", SP, "plan", SP, "today">>),
      Body(<<>>) }
BodyRequests == {Asked(<<>>, <<>>, None, data) : data \in OtherBodies}

\* Column settings against the number of nodes
STOP == Visit(<<<<"location_name", Str("Stop")>>>>)
MaxColsSettings ==
    {None, PyStr(<<"-1">>), PyStr(<<"0">>), PyStr(<<"1">>), PyStr(<<"2">>), PyStr(<<"3">>),
     PyStr(<<"abc">>)}
LayoutRequests ==
    {Asked(<<>>, <<>>, env, Body(Answer(Dict(<<<<"visit_sequence", PyList([i \in 1..n |-> STOP])>>>>)))) :
        n \in 1..MaxNodes, env \in MaxColsSettings}

\* A grid of one column with many rows
TallRequests ==
    {Asked(<<>>, <<>>, PyStr(<<"1">>),
           Body(Answer(Dict(<<<<"visit_sequence", PyList([i \in 1..n |-> STOP])>>>>)))) :
        n \in (MaxRows - 1)..MaxRows}

\* The upstream answers with the sample payload itself, or fails, under every
\* days field
SampleDaysInputs == DaysInputs \cup {<<"1">>, <<"5">>}
SampleRequests ==
    {Request(Form(PARIS, d, o), TRUE, TRUE, None, up, Body(SAMPLE_GEMINI_RAW.s)) :
        d \in SampleDaysInputs, o \in {<<>>, <<"Delhi">>}, up \in {"ok", "timeout"}}

Requests ==
    ConfigRequests \cup VisitRequests \cup ShapedRequests \cup BodyRequests \cup LayoutRequests
        \cup SampleRequests \cup TallRequests

Init ==
    /\ fn = "plan" /\ arg = None /\ aux = None /\ res = None
    /\ req \in Requests
    /\ pc = "start"
    /\ PlanLocalsUnset

Next ==
    \/ PlanStart
    \/ CallGemini
    \/ ExtractCore
    \/ NormalizeExtras
    \/ DaysN
    \/ Synthesize
    \/ FinalSort
    \/ Layout
    \/ BuildNodes
    \/ Links
    \/ Travel
    \/ Render

Spec == Init /\ [][Next]_vars

----------------------------------------------------------------------------
(* The harness of extract_text_from_api_response *)

\* what a body holds at the end of a field path
TextKinds == {"absent", "empty", "blank", "word", "number"}
\* the word held at the end of path i, a different one for every path
PathWord(i) == <<"t1", "t2", "t3", "t4", "t5", "t6", "t7">>[i]
TextOfKind(kind, i) ==
    CASE kind = "empty" -> PyStr(<<>>)
      [] kind = "blank" -> PyStr(<<SP>>)
      [] kind = "word" -> PyStr(<<PathWord(i)>>)
      [] kind = "number" -> PyInt(5)
\* the text field of a mapping that ends path i
TextField(kind, i) ==
    IF kind = "absent" THEN <<>> ELSE <<<<"text", TextOfKind(kind, i)>>>>

\* the shapes of candidates and of outputs
ListShapes == {"absent", "empty", "mapping", "list"}
\* the content of the first candidate: a mapping with parts, or a list
CandidateContent(k) ==
    IF k[1] # "absent"
    THEN <<<<"content", Dict(<<<<"parts", PyList(<<Dict(TextField(k[1], 1))>>)>>>>)>>>>
    ELSE IF k[2] # "absent"
    THEN <<<<"content", PyList(<<Dict(TextField(k[2], 2))>>)>>>>
    ELSE <<>>
OutputContent(k) ==
    IF k[4] # "absent"
    THEN <<<<"content", PyList(<<Dict(TextField(k[4], 4))>>)>>>>
    ELSE <<>>
ListField(name, shape, first) ==
    CASE shape = "absent" -> <<>>
      [] shape = "empty" -> <<<<name, PyList(<<>>)>>>>
      [] shape = "mapping" -> <<<<name, Dict(<<<<"0", first>>>>)>>>>
      [] shape = "list" -> <<<<name, PyList(<<first>>)>>>>
ResponseField(kind) ==
    IF kind = "absent" THEN <<>> ELSE <<<<"response", Dict(TextField(kind, 6))>>>>

\* the body whose paths end as k says, under candidates and outputs of the
\* given shapes
PathsBody(cands, outs, k) ==
    Dict(ListField("candidates", cands, Dict(CandidateContent(k) \o TextField(k[3], 3)))
         \o ListField("outputs", outs, Dict(OutputContent(k) \o TextField(k[5], 5)))
         \o ResponseField(k[6])
         \o TextField(k[7], 7))

\* bodies that are no mapping
PlainBodies ==
    {None, PyBool(FALSE), PyInt(0), PyInt(5), PyStr(<<>>), PyStr(<<"t7">>),
     PyStr(<<SP>>), PyList(<<>>), PyList(<<PyInt(1)>>), PyList(<<Dict(TextField("word", 7))>>)}

NoPaths == [cands |-> "absent", outs |-> "absent", k |-> [i \in 1..7 |-> "absent"]]

InitText ==
    /\ fn = "none" /\ res = None
    /\ \/ \E cands \in ListShapes, outs \in ListShapes, k \in [1..7 -> TextKinds] :
            /\ Cardinality({i \in 1..7 : k[i] # "absent"}) <= MaxFields
            /\ k[1] = "absent" \/ k[2] = "absent"
            /\ cands # "list" => \A i \in 1..3 : k[i] = "absent"
            /\ outs # "list" => \A i \in 4..5 : k[i] = "absent"
            /\ aux = [cands |-> cands, outs |-> outs, k |-> k]
            /\ arg = PathsBody(cands, outs, k)
       \/ /\ arg \in PlainBodies
          /\ aux = NoPaths
    /\ PlanIdle

ApplyExtractText ==
    /\ fn = "none"
    /\ fn' = "extract_text_from_api_response"
    /\ res' = extract_text_from_api_response(arg)
    /\ UNCHANGED <<arg, aux>>
    /\ UNCHANGED planVars

NextText == ApplyExtractText

SpecText == InitText /\ [][NextText]_vars

----------------------------------------------------------------------------
(* Requests served by one process *)

\* The server runs plan() once for each request, and the runs of several
\* requests interleave.  The variables hold the locals of the request that is
\* running; aux holds the locals of the others, arg the number of the one
\* running.  The configuration of the process is not a local: the fields url,
\* key and max_cols_env of req stand for GEMINI_API_URL, GEMINI_API_KEY and the
\* environment, and stay where they are when the running request changes.
Served == 1..MaxServed
Running == arg.i

\* the locals of the running request
Locals ==
    [req |-> req, pc |-> pc, calls |-> calls, flashes |-> flashes,
     gemini_raw |-> gemini_raw, parsed |-> parsed, itinerary |-> itinerary,
     visit_sequence |-> visit_sequence, popular_dinners |-> popular_dinners,
     popular_stays |-> popular_stays,
     travel_instructions |-> travel_instructions, days_n |-> days_n,
     layout |-> layout, node_positions |-> node_positions,
     location_to_coords |-> location_to_coords, links |-> links,
     outcome |-> outcome, res |-> res]

\* the locals of a request that has not started
Waiting(r) ==
    [req |-> r, pc |-> "start", calls |-> 0, flashes |-> <<>>, gemini_raw |-> None,
     parsed |-> None, itinerary |-> None, visit_sequence |-> None,
     popular_dinners |-> None, popular_stays |-> None, travel_instructions |-> None,
     days_n |-> 0, layout |-> None, node_positions |-> <<>>,
     location_to_coords |-> <<>>, links |-> None, outcome |-> "pending", res |-> None]

\* lines 18-19 and 418: the configuration the process runs under
ProcessConfig == [url |-> req.url, key |-> req.key, max_cols_env |-> req.max_cols_env]
UnderConfig(r, c) ==
    [r EXCEPT !.url = c.url, !.key = c.key, !.max_cols_env = c.max_cols_env]

\* the locals of request i
LocalsOf(i) == IF i = Running THEN Locals ELSE aux[i]

\* A variant in which parsed is one object of the process, not a local
SwitchSharingParsed(j) ==
    /\ fn = "plan"
    /\ j \in Served /\ j # Running /\ aux[j].pc # "done"
    /\ Running = 1 => pc = "done"
    /\ arg' = PyInt(j)
    /\ aux' = [aux EXCEPT ![Running] = Locals, ![j] = None]
    /\ req' = UnderConfig(aux[j].req, ProcessConfig)
    /\ parsed' = parsed
    /\ pc' = aux[j].pc
    /\ calls' = aux[j].calls
    /\ flashes' = aux[j].flashes
    /\ gemini_raw' = aux[j].gemini_raw
    /\ itinerary' = aux[j].itinerary
    /\ visit_sequence' = aux[j].visit_sequence
    /\ popular_dinners' = aux[j].popular_dinners
    /\ popular_stays' = aux[j].popular_stays
    /\ travel_instructions' = aux[j].travel_instructions
    /\ days_n' = aux[j].days_n
    /\ layout' = aux[j].layout
    /\ node_positions' = aux[j].node_positions
    /\ location_to_coords' = aux[j].location_to_coords
    /\ links' = aux[j].links
    /\ outcome' = aux[j].outcome
    /\ res' = aux[j].res
    /\ UNCHANGED fn

\* the server goes on with request j: the locals of the running request are
\* set aside and those of j are taken up.  Request 1 is served alone, before
\* the others, which interleave in every way.
Switch(j) ==
    /\ fn = "plan"
    /\ j \in Served /\ j # Running /\ aux[j].pc # "done"
    /\ Running = 1 => pc = "done"
    /\ arg' = PyInt(j)
    /\ aux' = [aux EXCEPT ![Running] = Locals, ![j] = None]
    /\ req' = UnderConfig(aux[j].req, ProcessConfig)
    /\ pc' = aux[j].pc
    /\ calls' = aux[j].calls
    /\ flashes' = aux[j].flashes
    /\ gemini_raw' = aux[j].gemini_raw
    /\ parsed' = aux[j].parsed
    /\ itinerary' = aux[j].itinerary
    /\ visit_sequence' = aux[j].visit_sequence
    /\ popular_dinners' = aux[j].popular_dinners
    /\ popular_stays' = aux[j].popular_stays
    /\ travel_instructions' = aux[j].travel_instructions
    /\ days_n' = aux[j].days_n
    /\ layout' = aux[j].layout
    /\ node_positions' = aux[j].node_positions
    /\ location_to_coords' = aux[j].location_to_coords
    /\ links' = aux[j].links
    /\ outcome' = aux[j].outcome
    /\ res' = aux[j].res
    /\ UNCHANGED fn

\* the requests served together: the forms and answers differ, the
\* configuration is the one of the process
ServedRequests ==
    { [form |-> Form(PyStr(<<SP>>), <<"2">>, <<"Delhi">>), data |-> Body(GoodAnswer)],
      [form |-> Form(PARIS, <<>>, <<>>), data |-> Body(GoodAnswer)],
      [form |-> Form(PARIS, <<"2">>, <<"Delhi">>),
       data |-> Body(Answer(Dict(<<<<"itinerary",
                                     PyList(<<Dict(<<<<"activities",
                                                       PyList(<<Str("Fort")>>)>>>>)>>)>>,
                                   <<"destination_name", Str("Agra")>>>>)))] }
ServedConfigs ==
    { [url |-> TRUE, key |-> TRUE, max_cols_env |-> None],
      [url |-> TRUE, key |-> TRUE, max_cols_env |-> PyStr(<<"1">>)] }
ServedRequest(r, c) == Request(r.form, c.url, c.key, c.max_cols_env, "ok", r.data)

\* the requests of one process: the first two are the same request, the others
\* are any requests
InitServe ==
    /\ fn = "plan" /\ arg = PyInt(1) /\ res = None
    /\ \E c \in ServedConfigs, r \in ServedRequests, others \in [3..MaxServed -> ServedRequests] :
            /\ req = ServedRequest(r, c)
            /\ aux = [i \in Served |->
                        IF i = 1 THEN None
                        ELSE IF i = 2 THEN Waiting(ServedRequest(r, c))
                        ELSE Waiting(ServedRequest(others[i], c))]
    /\ pc = "start"
    /\ PlanLocalsUnset

NextServe == Next \/ \E j \in Served : Switch(j)

SpecServe == InitServe /\ [][NextServe]_vars

----------------------------------------------------------------------------
(* The harness of normalize_visit_sequence on items of every shape *)

RECORD_A == Dict(<<<<"order", PyInt(1)>>, <<"location_name", Str("A")>>>>)
RECORD_B == Dict(<<<<"name", Str("B")>>>>)
\* an item of a raw sequence, with the records it stands for
Shape(item, gives) == [item |-> item, gives |-> gives]
ItemShapes ==
    { Shape(RECORD_A, <<RECORD_A>>),
      Shape(PyDict(<<>>), <<PyDict(<<>>)>>),
      Shape(PyInt(5), <<>>),
      Shape(None, <<>>),
      Shape(PyBool(TRUE), <<>>),
      Shape(PyFloat("4.2"), <<>>),
      Shape(PyList(<<RECORD_B, PyInt(5), RECORD_A>>), <<RECORD_B, RECORD_A>>),
      Shape(PyStr(Dumps(RECORD_B)), <<RECORD_B>>),
      Shape(PyStr(Dumps(PyList(<<RECORD_A, PyInt(1), RECORD_B>>))), <<RECORD_A, RECORD_B>>),
      Shape(PyStr(<<"visit", SP, JSON_START>> \o Dumps(RECORD_B) \o <<JSON_END>>), <<RECORD_B>>),
      Shape(PyStr(<<"3">>), <<>>),
      Shape(PyStr(<<>>), <<>>),
      Shape(PyStr(<<"see", SP, "notes", ",", SP, "{">>), <<>>),
      Shape(PyStr(<<"order", ":", SP, "3">>), <<Dict(<<<<"order", PyInt(3)>>>>)>>),
      Shape(PyStr(<<"location_name", SP, "=", SP, "Fort">>),
            <<Dict(<<<<"location_name", Str("Fort")>>>>)>>),
      Shape(PyStr(<<"order", "=", "2", ",", SP, "location_name", ":", SP, QUOTE, "Taj", SP,
                    "Mahal", QUOTE, ",", SP, "note", ":", SP, "x">>),
            <<Dict(<<<<"order", PyInt(2)>>,
                     <<"location_name", PyStr(<<"Taj", SP, "Mahal">>)>>>>)>>) }

\* values that are no sequence of items
OtherShapes ==
    { None, PyInt(0), PyInt(5), PyBool(TRUE), PyFloat("4.2"), PyStr(<<>>),
      PyStr(<<"see", SP, "notes">>), PyStr(<<"5">>), PyStr(<<QUOTE, "see", QUOTE>>),
      PyList(<<>>), PyDict(<<>>), RECORD_A,
      Dict(<<<<"visit_sequence", PyInt(5)>>>>),
      Dict(<<<<"visit_sequence", PyStr(Dumps(PyList(<<RECORD_A>>)))>>>>),
      Dict(<<<<"visits", Dict(<<<<"a", RECORD_A>>>>)>>>>) }

InitShapes ==
    /\ fn = "none" /\ res = None
    /\ \/ \E l \in TextsUpTo(ItemShapes, MaxShapes) :
            /\ aux = [l |-> l, form |-> "items"]
            /\ arg = PyList([i \in 1..Len(l) |-> l[i].item])
       \/ /\ arg \in OtherShapes
          /\ aux = [l |-> <<>>, form |-> "value"]
    /\ PlanIdle

SpecShapes == InitShapes /\ [][NextNorm]_vars

----------------------------------------------------------------------------
(* The harness of extract_json_from_text on texts with and without markers *)

OBJECT_A == Dict(<<<<"a", PyInt(1)>>>>)
\* the pieces the texts are made of: braces, the markers, an object, an object
\* in an object, an object whose quotes are escaped, an object with a closing
\* brace in a string, an object cut short
Pieces ==
    { <<"{">>, <<"}">>, <<JSON_START>>, <<JSON_END>>,
      Dumps(OBJECT_A),
      Dumps(Dict(<<<<"b", OBJECT_A>>>>)),
      <<"{", ESC_QUOTE, "a", ESC_QUOTE, ":", SP, "1", "}">>,
      Dumps(Dict(<<<<"a", PyStr(<<"}">>)>>>>)),
      <<"{", QUOTE, "a", QUOTE, ":">> }

RECURSIVE Joined(_)
Joined(ps) == IF Len(ps) = 0 THEN <<>> ELSE ps[1] \o Joined(Tail(ps))

\* inputs that are no text
NoTexts == {None, PyInt(5), PyBool(TRUE), PyList(<<OBJECT_A>>), OBJECT_A}

InitBraces ==
    /\ fn = "none" /\ res = None
    /\ \/ \E ps \in TextsUpTo(Pieces, MaxPieces), fenced \in BOOLEAN :
            /\ fenced => Len(ps) < MaxPieces
            /\ aux = [pieces |-> ps, fenced |-> fenced]
            /\ arg = PyStr(IF fenced THEN <<FENCE, TAG, NL>> \o Joined(ps) \o <<NL, FENCE>>
                           ELSE Joined(ps))
       \/ /\ arg \in NoTexts
          /\ aux = [pieces |-> <<>>, fenced |-> FALSE]
    /\ PlanIdle

SpecBraces == InitBraces /\ [][NextJson]_vars

----------------------------------------------------------------------------
(* C8 *)

\* the whole text is one fence: it opens and ends with the fence lexeme
Wrapped(s) == Len(s) >= 2 /\ s[1] = FENCE /\ s[Len(s)] = FENCE
\* what the fence wraps, the json tag left out
Unwrap(s) ==
    LET body == SubSeq(s, 2, Len(s) - 1)
    IN IF Len(body) > 0 /\ body[1] = TAG THEN Tail(body) ELSE body
\* a wrapped text followed by one newline ending the text
WrappedThenNewline(s) ==
    Len(s) >= 3 /\ s[Len(s)] = NL /\ Wrapped(SubSeq(s, 1, Len(s) - 1))

\* C8 as claimed: a text wholly wrapped in a fence (with or without the json tag)
\* gives its inner text stripped; every other text and every non-string input
\* comes back unchanged.
C8_Original ==
    fn = "strip_code_fences" =>
        IF IsStr(arg) /\ Wrapped(arg.s)
        THEN res = PyStr(Strip(Unwrap(arg.s)))
        ELSE res = arg

\* C8 as amended: a text wholly wrapped in a fence, or such a text followed by
\* exactly one newline that ends it, gives its inner text stripped; every other
\* text and every non-string input comes back unchanged.
C8_FenceStripped ==
    fn = "strip_code_fences" =>
        IF IsStr(arg) /\ Wrapped(arg.s)
        THEN res = PyStr(Strip(Unwrap(arg.s)))
        ELSE IF IsStr(arg) /\ WrappedThenNewline(arg.s)
        THEN res = PyStr(Strip(Unwrap(SubSeq(arg.s, 1, Len(arg.s) - 1))))
        ELSE res = arg

\* a tagged fence with padded inner text has been stripped to its inner text
C8_Witness ==
    /\ fn = "strip_code_fences"
    /\ arg = PyStr(<<FENCE, TAG, SP, "x", FENCE>>)
    /\ res = PyStr(<<"x">>)

----------------------------------------------------------------------------
(* C3 *)

Contains(s, c) == \E i \in 1..Len(s) : s[i] = c

\* C3 as claimed: whatever the prose around the markers and whatever kind of
\* JSON value J is, extract_json_from_text returns a value equal to J.
C3_Original == fn = "extract_json_from_text" => res = aux.j

\* C3 as amended: when J is a JSON object whose text holds no end marker and
\* the prose before the start marker holds no start marker, the result equals J,
\* whatever braces the prose holds; when J is not an object the result is none or
\* an object found by the brace scan, so it equals J only when J is null and the
\* scan finds nothing.
C3_MarkedObjectReturned ==
    fn = "extract_json_from_text" =>
        IF IsDict(aux.j)
        THEN (~Contains(Dumps(aux.j), JSON_END) /\ ~Contains(aux.prefix, JSON_START))
                => res = aux.j
        ELSE res = None \/ IsDict(res)

\* a nested object was returned from between the markers although the prose
\* before and after holds unbalanced braces
C3_Witness ==
    /\ fn = "extract_json_from_text"
    /\ aux.j = Dict(<<<<"a", Dict(<<<<"b", PyInt(2)>>>>)>>>>)
    /\ aux.prefix = <<"x", "{">>
    /\ aux.suffix = <<"}">>
    /\ res = aux.j

----------------------------------------------------------------------------
(* C4 *)

\* C4 as claimed: the list itself, its JSON-encoded string and a single mapping
\* standing for the same visits (a mapping carrying the list under visit_sequence
\* or visits, or a lone visit record) all normalise to the result for the list.
C4_Original ==
    fn = "normalize_visit_sequence" => res = normalize_visit_sequence(PyList(aux.l))

\* C4 as amended: the list itself, its JSON-encoded string and a mapping carrying
\* the list under visit_sequence or under visits normalise to the same flat list
\* of mappings, the list's own records in order; a lone visit record, a mapping
\* with neither field, normalises to the empty list.
C4_SameAsDirectList ==
    fn = "normalize_visit_sequence" =>
        IF aux.form = "lone_record"
        THEN res = PyList(<<>>)
        ELSE res = normalize_visit_sequence(PyList(aux.l)) /\ res = PyList(aux.l)

\* a JSON-encoded string of two visits was normalised to the two records
C4_Witness ==
    /\ fn = "normalize_visit_sequence"
    /\ aux.form = "json_string"
    /\ Len(aux.l) = 2
    /\ aux.l[1] # aux.l[2]
    /\ res = PyList(aux.l)

----------------------------------------------------------------------------
(* Shorthands of the claims about the handler *)

Finished == pc = "done"
Rendered == pc = "done" /\ outcome = "rendered"
\* the request went past the form check, with the upstream API configured and
\* the column setting left at its default
AskedUpstream == Len(Strip(GetDefault(req.form, "destination", PyStr(<<>>)).s)) > 0
Configured == req.url /\ req.key
DefaultColumns == req.max_cols_env.t = "null"
NodeOrders == [i \in 1..Len(node_positions) |-> Get(node_positions[i], "order").i]

----------------------------------------------------------------------------
(* C6 *)

BlankDestination ==
    \/ ~HasKey(req.form, "destination")
    \/ \A i \in 1..Len(Get(req.form, "destination").s) : IsSpace(Get(req.form, "destination").s[i])

\* C6: a form whose destination field is missing, empty or only white space ends
\* in a redirect to the index page with a message for the user, and at no point
\* of the request is the upstream API called.
C6_BlankDestinationRedirects ==
    BlankDestination =>
        /\ calls = 0
        /\ pc \in {"start", "done"}
        /\ pc = "done" => outcome = "redirect" /\ flashes = <<FLASH_DESTINATION>>

\* a destination of white space only, with the upstream API configured and
\* answering, was turned back
C6_Witness ==
    /\ Finished /\ outcome = "redirect"
    /\ HasKey(req.form, "destination")
    /\ Get(req.form, "destination").s = <<SP, NL>>
    /\ Configured /\ req.upstream = "ok"
    /\ calls = 0

----------------------------------------------------------------------------
(* C5 *)

UpstreamFailed == AskedUpstream /\ Configured /\ req.upstream # "ok"

\* C5: when the one call to the upstream API raises (a timeout, a transport error,
\* an HTTP error status, an unreadable body), the request makes no second call,
\* records one warning for the user, takes the static sample payload as the
\* response text, and ends by rendering the page, with the sample's three
\* visits, instead of failing.
C5_SampleOnUpstreamFailure ==
    UpstreamFailed =>
        /\ calls <= 1
        /\ pc \notin {"start", "call"} =>
              /\ calls = 1
              /\ flashes = <<FlashApiError(req.upstream)>>
              /\ gemini_raw = SAMPLE_GEMINI_RAW
        /\ Finished =>
              /\ outcome = "rendered"
              /\ Get(parsed, "destination_name") = PyStr(<<"Mathura", ",", SP, "India">>)
              /\ NodeOrders = <<1, 2, 3>>

\* an HTTP error status ended in the rendered sample
C5_Witness ==
    /\ Rendered /\ UpstreamFailed /\ req.upstream = "http_error"
    /\ calls = 1 /\ Len(flashes) = 1 /\ Len(node_positions) = 3

----------------------------------------------------------------------------
(* C7 *)

\* C7 as claimed: with the endpoint URL or the API key unset, a request that needs
\* the upstream API ends in a configuration error surfaced to the caller, no HTTP
\* request is sent, and the sample itinerary is not rendered in its place.
C7_Original ==
    AskedUpstream /\ ~Configured /\ Finished =>
        /\ outcome = "raised"
        /\ calls = 0
        /\ gemini_raw.t = "null"

----------------------------------------------------------------------------
(* C1 *)

\* C1 as claimed: whatever text the upstream API returns, the handler never
\* raises: every stage degrades to an empty or default value and the page is
\* rendered.
C1_Original ==
    AskedUpstream /\ Configured /\ DefaultColumns /\ req.upstream = "ok" /\ Finished =>
        outcome = "rendered"

----------------------------------------------------------------------------
(* C2 *)

\* C2 as claimed: in every request that reaches rendering, the visit nodes handed
\* to the template are in ascending order of their order field, a visit without a
\* usable order counting with its position.
C2_Original ==
    Rendered => \A i \in 1..Len(NodeOrders) : \A j \in i..Len(NodeOrders) :
                    NodeOrders[i] <= NodeOrders[j]

----------------------------------------------------------------------------
(* C9 *)

\* the nodes have been placed on the grid
Placed == pc \in {"links", "travel", "render"} \/ Rendered

\* cols = min(n, max_cols) and rows = ceil(n / cols); the node at index i is in
\* column i mod cols and row floor(i / cols); columns are within 0..cols-1, rows
\* do not decrease along the index and stay below rows
GridOf(n, max_cols, cols, rows, cells) ==
    /\ cols = Min(n, max_cols)
    /\ cols >= 1
    /\ rows * cols >= n /\ (rows - 1) * cols < n
    /\ \A i \in 0..(n - 1) :
          /\ cells[i + 1] = <<i % cols, i \div cols>>
          /\ cells[i + 1][1] \in 0..(cols - 1)
          /\ cells[i + 1][2] < rows
    /\ \A i \in 1..(n - 1) : cells[i][2] <= cells[i + 1][2]

GridHolds ==
    GridOf(Len(node_positions), layout.max_cols, layout.cols, layout.rows, layout.cells)

DividedByZero == Finished /\ outcome = "raised" /\ res.e = "ZeroDivisionError"

\* C9 as claimed: for every list of n >= 1 visits and every integer set as the
\* maximum column count, the nodes are placed and the grid is as described.
C9_Original ==
    /\ ~DividedByZero
    /\ Placed /\ Len(node_positions) >= 1 => GridHolds

\* C9 as amended: for every list of n >= 1 visits and every positive maximum
\* column count, cols = min(n, max_cols), rows = ceil(n / cols), the node at index
\* i is in column i mod cols and row floor(i / cols), so columns run 0..cols-1
\* cyclically, rows do not decrease in index order, and every row index is below
\* rows; the layout does not fail.
C9_GridForPositiveMaxCols ==
    MaxColsConv.ok /\ MaxColsConv.n >= 1 =>
        /\ ~DividedByZero
        /\ Placed /\ Len(node_positions) >= 1 => GridHolds

\* seven nodes were placed at three columns a row, in three rows
C9_Witness ==
    /\ Rendered
    /\ Len(node_positions) = 7
    /\ layout.max_cols = 3 /\ layout.cols = 3 /\ layout.rows = 3
    /\ layout.cells[7] = <<0, 2>>

----------------------------------------------------------------------------
(* C10 *)

\* the name the claim gives the node at position i (from 1) made of visit v
ClaimedName(v, i) ==
    IF Truthy(Get(v, "location_name")) THEN Get(v, "location_name")
    ELSE IF Truthy(Get(v, "name")) THEN Get(v, "name")
    ELSE PyStr(<<"Place", SP, LexOf(i)>>)

\* C10: every node passed to the template has a location_name that is not null,
\* the visit's own location_name, else its name, else "Place N" with N its
\* position counted from 1, and integers as its grid coordinates x and y.
C10_NodesNamedAndPlaced ==
    Rendered =>
        /\ Len(node_positions) = Len(visit_sequence.l)
        /\ \A i \in 1..Len(node_positions) :
              /\ Get(node_positions[i], "location_name").t # "null"
              /\ Get(node_positions[i], "location_name") = ClaimedName(visit_sequence.l[i], i)
              /\ Get(node_positions[i], "x").t = "int" /\ Get(node_positions[i], "x").i \in Int
              /\ Get(node_positions[i], "y").t = "int" /\ Get(node_positions[i], "y").i \in Int

\* a page was rendered with a node named by its position, a node named by the
\* name field and a node named by its own location_name
C10_Witness ==
    /\ Rendered
    /\ Len(node_positions) = 3
    /\ \E i \in 1..3 : Get(node_positions[i], "location_name") = PyStr(<<"Place", SP, LexOf(i)>>)
    /\ \E i \in 1..3 : /\ ~HasKey(visit_sequence.l[i], "location_name")
                       /\ Get(node_positions[i], "location_name") = Str("B")
    /\ \E i \in 1..3 : Get(node_positions[i], "location_name") = Str("A")

----------------------------------------------------------------------------
(* C11 *)

\* path i of the body leads somewhere: the list it indexes is a list with a
\* first element
PathLeads(i) ==
    CASE i \in 1..3 -> aux.cands = "list"
      [] i \in 4..5 -> aux.outs = "list"
      [] OTHER -> TRUE
\* path i ends in a non-empty string
EndsNonEmpty(i) == PathLeads(i) /\ aux.k[i] \in {"blank", "word"}
\* path i ends in a string that is more than white space
EndsNonBlank(i) == PathLeads(i) /\ aux.k[i] = "word"
ExtractedText == fn = "extract_text_from_api_response"
PrettyPrinted == PyStr(DumpsIndent(arg, 0))

\* C11 as claimed: the result is the value at the first of the seven paths, in
\* their order, that ends in a non-empty string; when no path does, the empty
\* body included, it is the whole body as pretty-printed JSON text.
C11_Original ==
    ExtractedText =>
        IF \E i \in 1..7 : EndsNonEmpty(i)
        THEN \E i \in 1..7 : /\ EndsNonEmpty(i)
                             /\ \A j \in 1..(i - 1) : ~EndsNonEmpty(j)
                             /\ res = TextOfKind(aux.k[i], i)
        ELSE res = PrettyPrinted

\* C11 as amended: an empty body gives none and a body that is a string comes
\* back as it is; for every other body the result is the value at the first of
\* the seven paths, in their order, that ends in a string with more than white
\* space in it, and when no path does, the whole body as pretty-printed JSON
\* text, which reads back as the body.  A path that misses a key or an index
\* does not keep a later path from being tried.
C11_FirstNonBlankPath ==
    ExtractedText =>
        IF ~Truthy(arg) THEN res = None
        ELSE IF IsStr(arg) THEN res = arg
        ELSE IF \E i \in 1..7 : EndsNonBlank(i)
        THEN \E i \in 1..7 : /\ EndsNonBlank(i)
                             /\ \A j \in 1..(i - 1) : ~EndsNonBlank(j)
                             /\ res = PyStr(<<PathWord(i)>>)
        ELSE /\ res = PrettyPrinted
             /\ Loads(res.s) = [ok |-> TRUE, v |-> arg]

\* candidates is an empty list, so the first three paths raise on the index;
\* response.text is blank; the last path has given the text
C11_Witness ==
    /\ ExtractedText
    /\ aux.cands = "empty"
    /\ aux.k[6] = "blank" /\ aux.k[7] = "word"
    /\ res = PyStr(<<"t7">>)

----------------------------------------------------------------------------
(* C12 *)

\* the days the sample payload lists: its day_number fields
SampleDays == Cardinality({i \in 1..Len(SAMPLE_GEMINI_RAW.s) : SAMPLE_GEMINI_RAW.s[i] = "day_number"})
\* the visits the sample payload lists: its order fields
SampleVisits == Cardinality({i \in 1..Len(SAMPLE_GEMINI_RAW.s) : SAMPLE_GEMINI_RAW.s[i] = "order"})

\* the text the handler works on is the sample payload, and the page shows the
\* sample's days and its visits numbered 1..N in sequence
SampleRendered ==
    (Rendered /\ gemini_raw = SAMPLE_GEMINI_RAW) =>
        /\ IsList(itinerary) /\ Len(itinerary.l) = SampleDays
        /\ NodeOrders = [i \in 1..SampleVisits |-> i]

\* the rendered nodes that have both a latitude and a longitude, in visit order
BearsCoordinates(n) == ~IsNone(Get(n, "latitude")) /\ ~IsNone(Get(n, "longitude"))
CoordinateNodes == SelectSeq(node_positions, BearsCoordinates)
PairAt(i) == CoordinatePair(CoordinateNodes[i])
\* the directions link with the given origin, waypoints and destination
DirectionsLink(o, ws, d) ==
    PyStr(<<MAPS_DIR_URL>> \o
          urlencode(<<<<"api", <<"1">>>>, <<"origin", o>>, <<"destination", d>>,
                      <<"travelmode", <<"driving">>>>>>
                    \o (IF Len(ws) > 0 THEN <<<<"waypoints", JoinPipe(ws)>>>> ELSE <<>>)))
\* the link that runs from the first coordinate node through the ones between
\* to the last
NodesLink ==
    DirectionsLink(PairAt(1), [i \in 1..(Len(CoordinateNodes) - 2) |-> PairAt(i + 1)],
                   PairAt(Len(CoordinateNodes)))
\* the link that runs from the form's origin through every coordinate node but
\* the last to the last
OriginLink ==
    DirectionsLink(origin, [i \in 1..(Len(CoordinateNodes) - 1) |-> PairAt(i)],
                   PairAt(Len(CoordinateNodes)))

\* C12 as claimed: on the sample payload the page has the sample's days whatever
\* days field was submitted and the nodes are numbered 1..N in sequence; and
\* whenever a rendered node has both coordinates, maps_directions_link is the
\* link whose origin, waypoints and destination are the coordinate nodes in
\* visit order.
C12_Original ==
    /\ SampleRendered
    /\ (Rendered /\ Len(CoordinateNodes) > 0) => links.maps_directions_link = NodesLink

\* C12 as amended: the same, except that when the form gives an origin the link
\* starts at that origin, and every coordinate node but the last is a waypoint.
C12_SampleAndDirections ==
    /\ SampleRendered
    /\ (Rendered /\ Len(CoordinateNodes) > 0) =>
            links.maps_directions_link = IF Len(origin) > 0 THEN OriginLink ELSE NodesLink

\* the upstream answered with the sample, the form asked for five days from
\* Delhi; the page has the sample's three days and a link from Delhi
C12_Witness ==
    /\ Rendered /\ gemini_raw = SAMPLE_GEMINI_RAW /\ req.upstream = "ok"
    /\ days = <<"5">> /\ origin = <<"Delhi">>
    /\ Len(itinerary.l) = 3 /\ Len(CoordinateNodes) = 3
    /\ links.maps_directions_link = OriginLink

----------------------------------------------------------------------------
(* C13 *)

\* request 2 is the same request as request 1, which was served alone: when
\* both are finished they have rendered the same data, whatever the other
\* requests did in between
TwinsAgree ==
    (LocalsOf(1).pc = "done" /\ LocalsOf(2).pc = "done") => LocalsOf(1) = LocalsOf(2)

\* the requests that have read TREASUREMAP_MAX_COLS and laid out their grid
LaidOut == {i \in Served : LocalsOf(i).layout # None}

\* every grid was laid out under the column setting of the process
ColumnsOfProcess == \A i \in LaidOut : LocalsOf(i).layout.max_cols = MaxColsConv.n

\* no step changes the configuration of the process
ConfigFixed == [][ProcessConfig' = ProcessConfig]_vars

----------------------------------------------------------------------------
(* C14 *)

\* the travel instructions the answer supplied
SuppliedLegs == IterItems(TravelFrom(FirstTruthy(parsed, TRAVEL_KEYS)))
\* the page shows the supplied legs, each with its map_link
ShowsSupplied ==
    /\ Rendered /\ Len(SuppliedLegs) > 0
    /\ Len(travel_instructions.l) = Len(SuppliedLegs)
\* the ends of supplied leg i, and the coordinates known for them
EndName(i, end) == IF IsDict(SuppliedLegs[i]) THEN Get(SuppliedLegs[i], end) ELSE PyStr(<<>>)
KnownCoords(i, end) == Lookup(location_to_coords, EndName(i, end))
Known(i, end) == ~IsNone(KnownCoords(i, end))
Named(i, end) == Truthy(EndName(i, end))
MapLinkOf(i) == Get(travel_instructions.l[i], "map_link")

\* the link of a leg both of whose ends have known coordinates, and of a leg
\* one of whose ends has, the other having a name
PairsLink(i) == build_maps_dir_link(KnownCoords(i, "from"), KnownCoords(i, "to"))
MixedLink(i) ==
    IF Known(i, "from") THEN build_maps_dir_link(KnownCoords(i, "from"), EndName(i, "to"))
    ELSE build_maps_dir_link(EndName(i, "from"), KnownCoords(i, "to"))
OneKnownOtherNamed(i) ==
    \/ Known(i, "from") /\ ~Known(i, "to") /\ Named(i, "to")
    \/ Known(i, "to") /\ ~Known(i, "from") /\ Named(i, "from")
NamesLink(i) == build_maps_dir_link(EndName(i, "from"), EndName(i, "to"))

\* C14 as claimed: a leg gets the link between the two coordinate pairs when
\* both are known, else a link built from place names, else the link of the
\* whole trip; a leg with two names and no known coordinates gets the link
\* between the two names.
C14_Original ==
    ShowsSupplied =>
        \A i \in 1..Len(SuppliedLegs) :
            MapLinkOf(i) =
                IF Known(i, "from") /\ Known(i, "to") THEN PairsLink(i)
                ELSE IF OneKnownOtherNamed(i) THEN MixedLink(i)
                ELSE IF Named(i, "from") /\ Named(i, "to") THEN NamesLink(i)
                ELSE links.maps_directions_link

\* C14 as amended: a leg gets the link between the two coordinate pairs when
\* both are known, else the link between the known pair and the name of the
\* other end when one is known and the other end is named, else the link of
\* the whole trip: a leg with two names and no known coordinates gets the link
\* of the whole trip.
C14_LegLinks ==
    ShowsSupplied =>
        \A i \in 1..Len(SuppliedLegs) :
            MapLinkOf(i) =
                IF Known(i, "from") /\ Known(i, "to") THEN PairsLink(i)
                ELSE IF OneKnownOtherNamed(i) THEN MixedLink(i)
                ELSE links.maps_directions_link

\* the answer's first leg runs between two named places without known
\* coordinates and has the link of the whole trip; its third leg runs from a
\* place with known coordinates to a named one
C14_Witness ==
    /\ ShowsSupplied /\ Len(SuppliedLegs) = 4
    /\ Named(1, "from") /\ Named(1, "to") /\ ~Known(1, "from") /\ ~Known(1, "to")
    /\ MapLinkOf(1) = links.maps_directions_link /\ IsStr(MapLinkOf(1))
    /\ Known(3, "from") /\ ~Known(3, "to") /\ MapLinkOf(3) = MixedLink(3)

----------------------------------------------------------------------------
(* C15 *)

FREE_TIME == PyStr(<<"Free", SP, "time", SP, "/", SP, "local", SP, "exploration">>)
\* the answer has visits and no itinerary
VisitsWithoutItinerary ==
    /\ Rendered
    /\ ~Truthy(Get(parsed, "itinerary"))
    /\ Len(visit_sequence.l) > 0
\* the bucket of the visit at position i (from 0), and the names put in bucket b
BucketSize == PyCeilDiv(Len(visit_sequence.l), days_n)
BucketOf(i) == Min(days_n - 1, PyFloorDiv(i, BucketSize))
InBucket(b) == {i \in 1..Len(visit_sequence.l) : BucketOf(i - 1) = b}
NameOfVisit(i) == Get(node_positions[i], "location_name")
\* the names in the sequence names whose positions are in the set S, in order
NamesIn(S) ==
    LET Pick(i) == i \in S
        ps == SelectSeq([i \in 1..Len(visit_sequence.l) |-> i], Pick)
    IN [k \in 1..Len(ps) |-> NameOfVisit(ps[k])]
ActivitiesOfBucket(b) ==
    IF InBucket(b) = {} THEN PyList(<<FREE_TIME>>) ELSE PyList(NamesIn(InBucket(b)))

\* C15 as claimed: an answer with visits and without itinerary is rendered
\* with an itinerary of days_n days, the visit at position i in the day
\* min(days_n - 1, i div bucket_size), a day without visits holding the
\* free-time placeholder.
C15_Original ==
    VisitsWithoutItinerary =>
        /\ Len(itinerary.l) = days_n
        /\ days_n >= 1
        /\ \A d \in 1..days_n :
                Get(itinerary.l[d], "activities") = ActivitiesOfBucket(d - 1)

----------------------------------------------------------------------------
(* C16 *)

\* the itinerary is made of days, each a mapping whose activities, when it has
\* any, are a list of strings and mappings
IsActivity(a) == IsStr(a) \/ IsDict(a)
IsDay(d) ==
    /\ IsDict(d)
    /\ Truthy(Get(d, "activities")) =>
            /\ IsList(Get(d, "activities"))
            /\ \A k \in 1..Len(Get(d, "activities").l) : IsActivity(Get(d, "activities").l[k])
DaysOfActivities == IsList(itinerary) /\ \A k \in 1..Len(itinerary.l) : IsDay(itinerary.l[k])

RECURSIVE ActivitiesFrom(_)
\* the activities of the days ds, day by day
ActivitiesFrom(ds) ==
    IF Len(ds) = 0 THEN <<>>
    ELSE (IF Truthy(Get(ds[1], "activities")) THEN Get(ds[1], "activities").l ELSE <<>>)
            \o ActivitiesFrom(Tail(ds))
AllActivities == ActivitiesFrom(itinerary.l)

\* the visit v is the one made of the activity a as number k, with the first two
\* popular foods
MadeOf(v, a, k) ==
    /\ Get(v, "order") = PyInt(k)
    /\ IsStr(a) => Get(v, "location_name") = a
    /\ (IsDict(a) /\ HasKey(a, "name")) => Get(v, "location_name") = Get(a, "name")
    /\ Get(v, "nearby_food_recommendations") =
            PyList(SubSeq(popular_dinners.l, 1, Min(2, Len(popular_dinners.l))))

\* C16: the step after days_n, taken without visits and with an itinerary of
\* days of activities, makes one visit of each activity, in itinerary order,
\* numbered 1..N, each with the first two popular foods; taken with visits, it
\* leaves the visits as they are.
C16_OneVisitPerActivity ==
    [][pc = "synth" =>
          IF Truthy(visit_sequence) THEN visit_sequence' = visit_sequence
          ELSE (Truthy(itinerary) /\ DaysOfActivities) =>
                  /\ pc' = "sort"
                  /\ IsList(visit_sequence')
                  /\ Len(visit_sequence'.l) = Len(AllActivities)
                  /\ \A k \in 1..Len(AllActivities) :
                        MadeOf(visit_sequence'.l[k], AllActivities[k], k)]_vars

\* three visits have been made of the activities of a three-day itinerary, each
\* with two of the three popular foods
C16_Witness ==
    /\ pc = "sort" /\ ~HasKey(parsed, "visit_sequence")
    /\ Len(itinerary.l) = 3 /\ Len(popular_dinners.l) = 3
    /\ Len(visit_sequence.l) = 3
    /\ Get(visit_sequence.l[3], "location_name") = Str("Market")
    /\ Get(visit_sequence.l[3], "order") = PyInt(3)
    /\ Len(Get(visit_sequence.l[1], "nearby_food_recommendations").l) = 2

----------------------------------------------------------------------------
(* C17 *)

RECURSIVE GivenBy(_)
\* the records the shapes l stand for, in the order of l
GivenBy(l) == IF Len(l) = 0 THEN <<>> ELSE l[1].gives \o GivenBy(Tail(l))

\* C17: normalize_visit_sequence makes of a value of any shape a list of
\* mappings; of a sequence of items it makes the records the items stand for, in
\* the order of the items: a scalar and a string with neither JSON nor an order
\* nor a location_name in it give nothing, a string with one of the two fields
\* gives the record of the fields found.
C17_ListOfMappings ==
    fn = "normalize_visit_sequence" =>
        /\ IsList(res)
        /\ \A k \in 1..Len(res.l) : IsDict(res.l[k])
        /\ aux.form = "items" => res.l = GivenBy(aux.l)

\* a record, then a string with nothing to recover, then a string with an order
\* in it: the first and the third have given their records, in this order
C17_Witness ==
    /\ fn = "normalize_visit_sequence" /\ aux.form = "items"
    /\ Len(aux.l) = 3
    /\ aux.l[1].item = RECORD_A
    /\ aux.l[2].item = PyStr(<<"see", SP, "notes", ",", SP, "{">>)
    /\ aux.l[3].item = PyStr(<<"order", ":", SP, "3">>)
    /\ res = PyList(<<RECORD_A, Dict(<<<<"order", PyInt(3)>>>>)>>)

----------------------------------------------------------------------------
(* C18 *)

\* the text the search works on: the input without its fence, stripped
Searched == Strip(strip_code_fences(arg).s)
\* the marker search has found nothing (m[1] = 0), or what it found parses in
\* neither attempt
MarkerFails(s, m) == m[1] = 0 \/ ~LoadsWithRetry(SubSeq(s, m[1], m[2])).ok
\* the first opening brace of s, 0 when there is none
FirstOpen(s) == LeastOrZero({i \in 1..Len(s) : s[i] = "{"})
\* the depth after position j: the braces opened less the braces closed from the
\* first opening brace on, those in string literals too
DepthAfter(s, first, j) ==
    Cardinality({i \in first..j : s[i] = "{"}) - Cardinality({i \in first..j : s[i] = "}"})
\* the closing brace at which the depth is first back to zero, 0 when it never is
FirstBalance(s, first) ==
    IF first = 0 THEN 0
    ELSE LeastOrZero({j \in first..Len(s) : DepthAfter(s, first, j) = 0})
\* r is what the block parses to, with the retry on the unescaped block
ParsesTo(block, r) ==
    \A l \in {Loads(block)} :
        IF l.ok THEN r = l.v
        ELSE \A u \in {Loads(Unescape(block))} : r = (IF u.ok THEN u.v ELSE None)
\* r is the block from the first opening brace to the closing brace that
\* balances it, parsed; none when there is no such block
BlockParsed(s, r) ==
    \A first \in {FirstOpen(s)} : \A end \in {FirstBalance(s, first)} :
        IF end = 0 THEN r = None ELSE ParsesTo(SubSeq(s, first, end), r)

\* C18: extract_json_from_text gives a mapping or none for every input; none
\* for an input that is empty or no string; and when the marker search finds
\* nothing or its candidate does not parse, the block from the first opening
\* brace to the closing brace at which the depth is first back to zero, parsed,
\* none when there is no such block or it does not parse.
C18_MappingOrNone ==
    fn = "extract_json_from_text" =>
        /\ IsNone(res) \/ IsDict(res)
        /\ (~IsStr(arg) \/ ~Truthy(arg)) => IsNone(res)
        /\ (IsStr(arg) /\ Truthy(arg)) =>
              \A s \in {Searched} : \A m \in {MarkerSearch(s)} :
                  MarkerFails(s, m) => BlockParsed(s, res)

\* the markers hold an object cut short, which does not parse; the object with
\* a closing brace in a string that follows is cut at that brace: none
C18_Witness ==
    /\ fn = "extract_json_from_text"
    /\ aux.pieces = << <<JSON_START>>, <<"{", QUOTE, "a", QUOTE, ":">>,
                       Dumps(Dict(<<<<"a", PyStr(<<"}">>)>>>>)) >>
    /\ ~aux.fenced
    /\ IsNone(res)

----------------------------------------------------------------------------
(* C19 *)

\* the position of the node at place i of node_positions
XOf(i) == Get(node_positions[i], "x").i
YOf(i) == Get(node_positions[i], "y").i
\* the node lies inside the canvas handed to the template
InsideCanvas(i) ==
    /\ margin_x <= XOf(i) /\ XOf(i) <= svg_width - margin_x
    /\ margin_top <= YOf(i) /\ YOf(i) < layout.svg_height
\* the height of the canvas and the height of a node are as the claim gives them
HeightsAsGiven ==
    /\ layout.svg_height = Max(260, layout.rows * 160 + 80)
    /\ \A i \in 1..Len(node_positions) :
          YOf(i) = 40 + layout.cells[i][2] * 160 + layout.cells[i][2] * 6

\* C19 as claimed: for every n >= 1 nodes and every positive maximum column
\* count, every node lies inside the canvas, margin_x <= x <= svg_width - margin_x
\* and margin_top <= y < svg_height, and no two nodes have the same (x, y).
C19_Original ==
    (Placed /\ Len(node_positions) >= 1 /\ layout.max_cols > 0) =>
        /\ HeightsAsGiven
        /\ \A i \in 1..Len(node_positions) : InsideCanvas(i)
        /\ \A i, j \in 1..Len(node_positions) :
              i # j => <<XOf(i), YOf(i)>> # <<XOf(j), YOf(j)>>

====
